---- MODULE Spec2Model ----
(***************************************************************************)
(* A state-machine model of the AWK-like script engine of package awk:     *)
(* the Script struct, its configuration setters, the field accessors, the  *)
(* record and field splitters, GetLine and the Run loop with its Begin,    *)
(* rule and End callbacks.                                                 *)
(*                                                                         *)
(* Strings are sequences of one-character strings.  A user callback        *)
(* (Begin, a rule action, End) is an environment that, while it is active, *)
(* calls any of the Script methods and then returns (MaxCalls bounds the   *)
(* calls of a behaviour).  Patterns are matchAny and the function Auto(n)  *)
(* returns.                                                                *)
(***************************************************************************)
EXTENDS Integers, Sequences, FiniteSets, TLC

\* ---------------------------------------------------------------- bounds
MaxRuns == 2        \* Run invocations per behaviour
MaxRules == 2       \* statements appended to the script
MaxCalls == 2       \* Script method calls made by the callbacks of a behaviour
MaxScripts == 3     \* scripts of a pipeline
MaxConduit == 2     \* records a conduit between two scripts holds
MaxField == 3       \* largest field index / NF value a callback uses

\* ---------------------------------------------------------------- strings
IsSpace(c) == c \in {" ", "\n", "\t"}

\* Input streams handed to Run.
Data == <<"a", " ", "b", "\n", "c", ",", "d", "/", "e">>

\* The auxiliary stream handed to GetLine.
AuxInput == <<"p", "\n", "q", "\n">>

\* Arguments the callbacks pass to the setters.
RSValues == { <<"/">> }
BadRegexp == <<"(", "(">>
FSValues == { <<",">>, BadRegexp }
FieldValue == <<"x">>
RecordValue == <<"x", " ", "y", ",", "z">>
NRValues == {2}
OFSValues == { <<"-">> }

\* A slice (or an argument list) that is nil, which is not an empty one.
Nil == "nil"

\* The column widths given to SetFieldWidths (none, valid ones, ones with
\* a width that is not positive) and the patterns given to SetFPat.
WidthValues == { Nil, <<2, 1>>, <<1, 0>> }
FPatValues == { <<"b">>, BadRegexp }
ORSValues == { <<"|">> }

\* An input of three one-letter lines and the arguments given to Auto to
\* build range patterns on NR.
Lines == <<"a", "\n", "b", "\n", "c", "\n">>
RangeArgs == { <<2, 2>>, <<3, 1>>, <<1, 2, 2, 3>> }

\* An input whose records end with "XY" in either case, that record
\* terminator and the expression given to Auto.
CaseData == <<"a", "X", "Y", "b", "x", "y", "c", "X", "Y", "d">>
CaseRS == <<"X", "Y">>
CaseExpr == <<"C">>

\* The Value and the expressions given to Value.Match.
MatchText == <<"a", "B", "a", "b">>
MatchExprs == { <<"b">>, <<"a", "b">>, <<"z">>, <<>>, BadRegexp }

\* The conversion format of a new script and of every run.
convFmt == "%.6g"

\* A nil slice.

\* ---------------------------------------------------------------- errors
ErrSetRS == "SetRS was called from a running script"
ErrAppendStmt == "AppendStmt was called from a running script"
ErrRegexp == "error parsing regexp: missing closing )"
ErrRead == "reader I/O error"
PanicNext == "panic: Unexpected Next invocation"
PanicNilScanner == "panic: nil pointer dereference"

ErrNilWidths == "SetFieldWidths was passed a nil slice"
ErrBadWidth == "SetFieldWidths was passed an invalid field width"

Errors == {ErrSetRS, ErrAppendStmt, ErrRegexp, ErrRead, ErrNilWidths,
           ErrBadWidth}
Panics == {PanicNext, PanicNilScanner}

\* ---------------------------------------------------------------- state
VARIABLES
  \* the Script struct
  NR, NF, nf0, rs, fs, fields, rules, Begin, End, state, stop,
  input, rsScanner, getlineState, ofs, ors,
  RStart, RLength, ignCase, regexps,
  RT, ConvFmt, fieldWidths, fPat,
  \* what the script has written to Output in the current run
  output,
  \* position of the caller and of Run
  pc, ruleIdx, calls, runs, runResult,
  \* history of the current run
  lastCall, lastOk, nread, recNo, beginCount, endCount, patResult, acted,
  exitRule, exitRec, eofSeen,
  \* the argument and the result of the last call
  lastArg, lastRet,
  \* history of the current record: its text when it was split, the fields
  \* SetF wrote since (and NF did not cut off), whether NF or OFS was
  \* assigned since, the least NF since
  recText, wrote, conf, nfLow,
  \* the inRange variable of every Range closure of every rule, its value
  \* when the current run began, and for every rule with range patterns the
  \* evaluations of the current run: NR, the result, the result of each range
  inRange, latch0, evalHist,
  \* the records of the script's own stream handed out in the current run,
  \* in the order of their reading
  delivered,
  \* the number of GetLine calls made on the auxiliary reader
  auxCalls,
  \* the last of SetFS, SetFieldWidths and SetFPat that returned, and its
  \* argument
  lastMode,
  \* a Value (its three representations and which of them are valid), the
  \* input it was constructed from and the result of the last accessor
  value, valueIn, valueRet,
  \* a ValueArray's map; the map its calls describe, the argument list of
  \* the last call on it and the string of the Value the last Get returned
  arrayData, refData, arrayArg, arrayRet,
  \* a pipeline: the records in each conduit, which conduits their writer
  \* closed, the records the source wrote, each script's current record,
  \* the records it has read and printed, where it stands, and whether
  \* pipeline has returned
  conduit, closed, sent, current, received, emitted, stage, returned,
  \* whether Begin called Exit in the current run
  exitBegin,
  \* RS and IgnoreCase at the first GetLine on the auxiliary reader
  auxFirst,
  \* whether the script is a copy made by Copy, and what the script it was
  \* copied from holds in slices and maps of its own
  copied, origin

scriptVars == <<NR, NF, nf0, rs, fs, fields, rules, Begin, End, state, stop,
                input, rsScanner, getlineState, ofs, ors, output,
                RStart, RLength, ignCase, regexps,
                RT, ConvFmt, fieldWidths, fPat>>
ctlVars == <<pc, ruleIdx, runs, runResult>>
histVars == <<calls, lastCall, lastOk, nread, recNo, beginCount, endCount, patResult,
              acted, exitRule, exitRec, eofSeen, lastArg, lastRet,
              recText, wrote, conf, nfLow, delivered, auxCalls, lastMode,
              exitBegin, auxFirst, copied, origin>>
latchVars == <<inRange, latch0, evalHist>>
pipeVars == <<conduit, closed, sent, current, received, emitted, stage,
             returned>>
libVars == <<value, valueIn, valueRet, arrayData, refData, arrayArg,
            arrayRet, pipeVars>>
vars == <<scriptVars, ctlVars, histVars, latchVars, libVars>>

\* The zero Value: no representation is valid.
ZeroValue ==
  [ival |-> 0, fval |-> 0, sval |-> <<>>,
   ivalOk |-> FALSE, fvalOk |-> FALSE, svalOk |-> FALSE]

\* No Value has been constructed.
NoInput == [type |-> "none", v |-> 0]

\* A bufio.Scanner over a reader: the unread data, the terminator rune the
\* split function captured when it was made ("" for the split function
\* that matches RS as a regular expression), and whether the reader ends
\* with an I/O error instead of EOF.
NoScanner == [open |-> FALSE, data |-> <<>>, term |-> "", fails |-> FALSE]

\* No script was copied.
NoOrigin ==
  [fields |-> <<>>, rules |-> <<>>, regexps |-> {}, fieldWidths |-> <<>>,
   registered |-> FALSE]

NewScanner(r, sep) ==
  [open |-> TRUE, data |-> r.data,
   term |-> IF Len(sep) = 1 THEN sep[1] ELSE "", fails |-> r.fails]

\* An io.Reader: its bytes and whether it ends with an I/O error.
Reader(d, failing) == [data |-> d, fails |-> failing]

Inputs == {Reader(<<>>, FALSE), Reader(Data, FALSE), Reader(Data, TRUE)}

\* The readers given to Run that deliver their whole text.
DataReader == Reader(Data, FALSE)
LinesReader == Reader(Lines, FALSE)
CaseReader == Reader(CaseData, FALSE)

\* A rule without a pattern whose action is the user's, and one whose
\* pattern is the range from NR = 2 to NR = 3.
AnyStatement == [pat |-> "any", n |-> 0, act |-> "user"]
RangeStatement == [pat |-> "range", n |-> <<2, 3>>, act |-> "user"]

\* ---------------------------------------------------------------- splitters

\* bufio.ScanWords: the maximal runs of non-space characters.
RECURSIVE ScanWordsFrom(_, _, _, _)
ScanWordsFrom(s, i, cur, acc) ==
  IF i > Len(s)
  THEN IF cur = <<>> THEN acc ELSE Append(acc, cur)
  ELSE IF IsSpace(s[i])
       THEN ScanWordsFrom(s, i + 1, <<>>,
                          IF cur = <<>> THEN acc ELSE Append(acc, cur))
       ELSE ScanWordsFrom(s, i + 1, Append(cur, s[i]), acc)

ScanWords(s) == ScanWordsFrom(s, 1, <<>>, <<>>)

\* The split function of makeSingleCharFieldSplitter driven to exhaustion:
\* a token before every separator and one final, non-terminated token.
RECURSIVE SingleCharFrom(_, _, _, _, _)
SingleCharFrom(s, c, i, cur, acc) ==
  IF i > Len(s)
  THEN Append(acc, cur)
  ELSE IF s[i] = c
       THEN SingleCharFrom(s, c, i + 1, <<>>, Append(acc, cur))
       ELSE SingleCharFrom(s, c, i + 1, Append(cur, s[i]), acc)

makeSingleCharFieldSplitter(sep, rec) ==
  [err |-> "nil", toks |-> SingleCharFrom(rec, sep[1], 1, <<>>, <<>>)]

\* regexp.Compile, for the expressions the model uses.
\* The expression for one or more blank lines, and the one for sep or a
\* newline; either is held as written, the part the code adds in one
\* piece.
BlankLines == <<"\\r?\\n(\\r?\\n)+">>

JustSep(sep) == sep

OrNewline(sep) == <<"(">> \o sep \o <<")|(\\r?\\n)">>

IsOrNewline(expr) ==
  Len(expr) >= 2 /\ expr[1] = "(" /\ expr[Len(expr)] = ")|(\\r?\\n)"

Inner(expr) == SubSeq(expr, 2, Len(expr) - 1)

RegexpCompiles(expr) ==
  IF IsOrNewline(expr) THEN Inner(expr) # BadRegexp ELSE expr # BadRegexp

\* ---------------------------------------------------------------- field 0
\* Join: strings.Join.
RECURSIVE Join(_, _)
Join(strs, sep) ==
  IF Len(strs) = 0 THEN <<>>
  ELSE IF Len(strs) = 1 THEN strs[1]
       ELSE strs[1] \o sep \o Join(Tail(strs), sep)

\* FStrings: the strings of F(1) .. F(n); a field the slice does not hold
\* is the empty string.
FStrings(flds, n) ==
  [j \in 1..n |-> IF j < Len(flds) THEN flds[j + 1] ELSE <<>>]

\* recomputeF0: fields[0] becomes F(1) .. F(NF) joined with OFS, if the
\* slice has a field 0 at all.
recomputeF0(flds, n, sep) ==
  IF Len(flds) >= 1
  THEN [flds EXCEPT ![1] = Join(FStrings(flds, n), sep)]
  ELSE flds

\* ---------------------------------------------------------------- regexps
\* The flag compileRegexp puts in front of an expression.
IgnPrefix == <<"(?i)">>

HasIgnPrefix(expr) == Len(expr) >= 1 /\ expr[1] = "(?i)"

\* Case folding of the letters the inputs use.
Lower(c) ==
  CASE c = "B" -> "b"
    [] c = "C" -> "c"
    [] c = "P" -> "p"
    [] c = "Q" -> "q"
    [] c = "X" -> "x"
    [] c = "Y" -> "y"
    [] OTHER -> c

EqFold(a, b, fold) ==
  /\ Len(a) = Len(b)
  /\ \A i \in 1..Len(a) :
       IF fold THEN Lower(a[i]) = Lower(b[i]) ELSE a[i] = b[i]

\* regexp.Compile for the expressions the model uses: a literal text,
\* after "(?i)" one that ignores case; BadRegexp does not compile.
regexpCompile(expr) ==
  LET lit == IF HasIgnPrefix(expr) THEN Tail(expr) ELSE expr
  IN IF RegexpCompiles(lit)
     THEN [err |-> "nil", re |-> [lit |-> lit, fold |-> HasIgnPrefix(expr)]]
     ELSE [err |-> ErrRegexp, re |-> [lit |-> <<>>, fold |-> FALSE]]

\* The key compileRegexp caches a compiled expression under.
cacheKeyBare(expr, ign) == expr

cacheKey(expr, ign) == IF ign THEN IgnPrefix \o expr ELSE expr

\* compileRegexp in a script with the cache and the ignCase given: the
\* cached expression of the key, or else the newly compiled one, which is
\* cached.
compileRegexp(expr, ign, cache) ==
  LET full == IF ign THEN IgnPrefix \o expr ELSE expr
      key == cacheKey(expr, ign)
      hit == {c \in cache : c.key = key}
      new == regexpCompile(full)
  IN IF hit # {}
     THEN [err |-> "nil", re |-> (CHOOSE c \in hit : TRUE).re, cache |-> cache]
     ELSE IF new.err # "nil"
          THEN [err |-> new.err, re |-> new.re, cache |-> cache]
          ELSE [err |-> "nil", re |-> new.re,
                cache |-> cache \cup {[key |-> key, re |-> new.re]}]

\* Regexp.FindIndex: the leftmost match of the expression at or after
\* offset p.
RECURSIVE NewlineRun(_, _)
NewlineRun(text, p) ==
  IF p < Len(text) /\ text[p + 1] = "\n" THEN 1 + NewlineRun(text, p + 1)
  ELSE 0

\* The length of the match of a literal text at offset p, or -1.
LitLen(lit, fold, text, p) ==
  IF p + Len(lit) <= Len(text)
     /\ EqFold(SubSeq(text, p + 1, p + Len(lit)), lit, fold)
  THEN Len(lit)
  ELSE -1

\* The length of the match of the expression at offset p, or -1: two or
\* more newlines for BlankLines, all there are; for sep or a newline the
\* first alternative that matches; else the literal text.  (The inputs
\* hold no carriage return.)
MatchLen(re, text, p) ==
  IF re.lit = BlankLines
  THEN IF NewlineRun(text, p) >= 2 THEN NewlineRun(text, p) ELSE -1
  ELSE IF IsOrNewline(re.lit)
       THEN IF LitLen(Inner(re.lit), re.fold, text, p) >= 0
            THEN LitLen(Inner(re.lit), re.fold, text, p)
            ELSE IF NewlineRun(text, p) >= 1 THEN 1 ELSE -1
       ELSE LitLen(re.lit, re.fold, text, p)

RECURSIVE FindIndexFrom(_, _, _)
FindIndexFrom(re, text, p) ==
  IF p > Len(text)
  THEN [found |-> FALSE, lo |-> 0, hi |-> 0]
  ELSE IF MatchLen(re, text, p) >= 0
       THEN [found |-> TRUE, lo |-> p, hi |-> p + MatchLen(re, text, p)]
       ELSE FindIndexFrom(re, text, p + 1)

FindIndex(re, text) == FindIndexFrom(re, text, 0)

\* ---------------------------------------------------------------- fields
\* The split function of makeFixedFieldSplitter driven to exhaustion: a
\* token of every width while the record has that many characters left,
\* then once what is left of it, unless the widths ran out before.
RECURSIVE FixedFrom(_, _, _, _)
FixedFrom(fw, f, data, acc) ==
  IF f > Len(fw) THEN acc
  ELSE IF Len(data) >= fw[f]
       THEN FixedFrom(fw, f + 1, SubSeq(data, fw[f] + 1, Len(data)),
                      Append(acc, SubSeq(data, 1, fw[f])))
       ELSE Append(acc, data)

makeFixedFieldSplitter(fw, rec) ==
  [err |-> "nil", toks |-> FixedFrom(fw, 1, rec, <<>>)]

\* The split function of makeREFieldMatcher driven to exhaustion: the
\* successive matches of the expression.
RECURSIVE MatchesFrom(_, _, _)
MatchesFrom(re, data, acc) ==
  LET loc == FindIndex(re, data)
  IN IF ~loc.found THEN acc
     ELSE MatchesFrom(re, SubSeq(data, loc.hi + 1, Len(data)),
                      Append(acc, SubSeq(data, loc.lo + 1, loc.hi)))

\* makeREFieldMatcher: an expression that does not compile makes every
\* split fail with the compile error.
makeREFieldMatcher(pat, rec, cache) ==
  LET c == compileRegexp(pat, ignCase, cache)
  IN IF c.err # "nil"
     THEN [err |-> c.err, toks |-> <<>>, cache |-> c.cache]
     ELSE [err |-> "nil", toks |-> MatchesFrom(c.re, rec, <<>>),
           cache |-> c.cache]

\* The split function of makeREFieldSplitter driven to exhaustion: the
\* text before every match of the expression, then once what is left.
RECURSIVE SplitFrom(_, _, _)
SplitFrom(re, data, acc) ==
  LET loc == FindIndex(re, data)
  IN IF ~loc.found THEN Append(acc, data)
     ELSE SplitFrom(re, SubSeq(data, loc.hi + 1, Len(data)),
                    Append(acc, SubSeq(data, 1, loc.lo)))

\* makeREFieldSplitter: FS as an expression, with an empty RS FS or a
\* newline; an expression that does not compile makes every split fail
\* with the compile error.
makeREFieldSplitter(sep, term, rec, cache) ==
  LET c == compileRegexp(IF term = <<>> THEN OrNewline(sep) ELSE sep,
                         ignCase, cache)
  IN IF c.err # "nil"
     THEN [err |-> c.err, toks |-> <<>>, cache |-> c.cache]
     ELSE [err |-> "nil", toks |-> SplitFrom(c.re, rec, <<>>),
           cache |-> c.cache]

\* The splitting mode FS and RS select.
SeparatorSplitter(sep, term, rec, cache) ==
  IF sep = <<" ">>
  THEN [err |-> "nil", toks |-> ScanWords(rec), cache |-> cache]
  ELSE IF Len(sep) = 1 /\ term # <<>>
       THEN [err |-> makeSingleCharFieldSplitter(sep, rec).err,
             toks |-> makeSingleCharFieldSplitter(sep, rec).toks,
             cache |-> cache]
       ELSE makeREFieldSplitter(sep, term, rec, cache)

\* makeFieldSplitter: field widths come first, then the field pattern,
\* then the splitting mode selected by FS and RS.
makeFieldSplitterWith(fw, fp, sep, term, rec, cache) ==
  LET fixed == makeFixedFieldSplitter(fw, rec)
      bySep == SeparatorSplitter(sep, term, rec, cache)
  IN IF fw # Nil
     THEN [err |-> fixed.err, toks |-> fixed.toks, cache |-> cache]
     ELSE IF fp # <<>>
          THEN makeREFieldMatcher(fp, rec, cache)
          ELSE bySep

makeFieldSplitter(sep, term, rec, cache) ==
  makeFieldSplitterWith(fieldWidths, fPat, sep, term, rec, cache)

\* splitRecord: field 0 is the record, fields 1.. are its tokens.  The
\* result carries the new fields; the caller stores them unless err is set.
splitRecord(sep, term, rec, cache) ==
  LET r == makeFieldSplitter(sep, term, rec, cache)
  IN [err |-> r.err, fields |-> <<rec>> \o r.toks, cache |-> r.cache]

\* ---------------------------------------------------------------- records
\* The split functions of makeRecordSplitter applied by bufio.Scanner: the
\* text before the first terminator, or at end of stream the non-empty
\* remainder.  The terminator is the rune the function captured, or for
\* any other RS the leftmost match of RS, compiled anew for every record.
RECURSIVE TermIndex(_, _, _)
TermIndexNotFirst(data, c, i) ==
  IF i > Len(data) THEN 0
  ELSE IF data[i] = c /\ i > 1 THEN i ELSE TermIndex(data, c, i + 1)

TermIndex(data, c, i) ==
  IF i > Len(data) THEN 0
  ELSE IF data[i] = c THEN i ELSE TermIndex(data, c, i + 1)

\* readRecord on a scanner: ok/rec/rest, or the error of the scan, the
\* regexp cache after it and the RT the split function leaves.  The split
\* function of a one-character RS assigns RT at every call, the other one
\* when it returns a record.
readRecordWith(sc, sep, ign, known, rt0) ==
  LET k == TermIndex(sc.data, sc.term, 1)
      c == compileRegexp(IF sep = <<>> THEN BlankLines ELSE sep, ign,
                         known)
      loc == FindIndex(c.re, sc.data)
      lo == IF sc.term # "" THEN k - 1 ELSE loc.lo
      hi == IF sc.term # "" THEN k ELSE loc.hi
      cache == IF sc.term # "" THEN known ELSE c.cache
  IN IF sc.term = "" /\ c.err # "nil"
     THEN [ok |-> FALSE, err |-> c.err, rec |-> <<>>, rest |-> <<>>,
           cache |-> cache, rt |-> rt0]
     ELSE IF (IF sc.term # "" THEN k > 0 ELSE loc.found)
          THEN [ok |-> TRUE, err |-> "nil", rec |-> SubSeq(sc.data, 1, lo),
                rest |-> SubSeq(sc.data, hi + 1, Len(sc.data)), cache |-> cache,
                rt |-> SubSeq(sc.data, lo + 1, hi)]
          ELSE IF Len(sc.data) > 0
               THEN [ok |-> TRUE, err |-> "nil", rec |-> sc.data, rest |-> <<>>,
                     cache |-> cache,
                     rt |-> IF sc.term # "" THEN <<sc.term>> ELSE <<>>]
               ELSE [ok |-> FALSE, err |-> IF sc.fails THEN ErrRead ELSE "EOF",
                     rec |-> <<>>, rest |-> <<>>, cache |-> cache,
                     rt |-> IF sc.term # "" THEN <<sc.term>> ELSE rt0]

\* readRecord on the script itself: the splitter's closure reads the
\* script's own RS, IgnoreCase and regular-expression cache.
readRecord(sc) == readRecordWith(sc, rs, ignCase, regexps, RT)

\* ---------------------------------------------------------------- Init
\* NewScript, with the Begin and End fields assigned or left nil.
Init ==
  /\ NR = 0 /\ NF = 0 /\ nf0 = 0
  /\ rs = <<"\n">> /\ fs = <<" ">>
  /\ fields = <<>>
  /\ rules = <<>>
  /\ Begin \in BOOLEAN /\ End \in BOOLEAN
  /\ state = "notRunning" /\ stop = "dontStop"
  /\ input = Reader(<<>>, FALSE)
  /\ rsScanner = NoScanner /\ getlineState = NoScanner
  /\ pc = "idle" /\ ruleIdx = 0 /\ calls = 0 /\ runs = 0
  /\ runResult = "none"
  /\ lastCall = "NewScript" /\ lastOk = TRUE
  /\ nread = 0 /\ recNo = 0 /\ beginCount = 0 /\ endCount = 0
  /\ patResult = [k \in 1..MaxRules |-> "none"]
  /\ acted = {}
  /\ exitRule = 0 /\ exitRec = 0 /\ eofSeen = FALSE
  /\ ofs = <<" ">> /\ ors = <<"\n">> /\ output = <<>>
  /\ RStart = 0 /\ RLength = 0 /\ ignCase = FALSE /\ regexps = {}
  /\ inRange = <<>> /\ latch0 = <<>>
  /\ evalHist = [k \in 1..MaxRules |-> <<>>]
  /\ lastArg = 0 /\ lastRet = <<>>
  /\ recText = <<>> /\ wrote = {} /\ conf = FALSE /\ nfLow = 0
  /\ RT = <<>> /\ ConvFmt = convFmt
  /\ fieldWidths = Nil /\ fPat = <<>>
  /\ lastMode = [kind |-> "FS", arg |-> <<" ">>]
  /\ delivered = <<>> /\ auxCalls = 0
  /\ value = ZeroValue /\ valueIn = NoInput /\ valueRet = Nil
  /\ arrayData = [j \in {} |-> ZeroValue] /\ refData = [j \in {} |-> <<>>]
  /\ arrayArg = <<>> /\ arrayRet = Nil
  /\ conduit = [k \in 0..MaxScripts |-> <<>>]
  /\ closed = [k \in 0..MaxScripts |-> FALSE]
  /\ sent = <<>> /\ returned = FALSE
  /\ current = [k \in 1..MaxScripts |-> <<>>]
  /\ received = [k \in 1..MaxScripts |-> <<>>]
  /\ emitted = [k \in 1..MaxScripts |-> <<>>]
  /\ stage = [k \in 1..MaxScripts |-> "read"]
  /\ exitBegin = FALSE
  /\ auxFirst = [rs |-> <<>>, ignCase |-> FALSE]
  /\ copied = FALSE /\ origin = NoOrigin

\* ---------------------------------------------------------------- helpers
\* The statements AppendStmt can be given: a nil pattern (matchAny) or
\* Auto(n), with a user action or a nil action (printRecord).
Statements ==
  [pat : {"any"}, n : {0}, act : {"user", "print"}]
    \cup [pat : {"nr"}, n : NRValues, act : {"user"}]

InRule == pc = "action" /\ rules[ruleIdx].act = "user"

\* A user callback is active and may still call a method.
InCallback == (pc \in {"begin", "end"} \/ InRule) /\ calls < MaxCalls

NoPat == [k \in 1..MaxRules |-> "none"]

\* The inRange variables of the Range closures a statement's pattern holds.
NewLatches(st) ==
  IF st.pat = "range" THEN [i \in 1..(Len(st.n) \div 2) |-> FALSE] ELSE <<>>

\* A user callback is running (reading a field is not counted as a call).
InUserCode == pc \in {"begin", "end"} \/ InRule

\* The call recorded as the last one has no argument and no result.
NoArgs == lastArg' = 0 /\ lastRet' = <<>>

\* The current record is the one it was.
RecSame == UNCHANGED <<recText, wrote, conf, nfLow>>

\* The output configuration and the sink are left alone.
OutSame == UNCHANGED <<ofs, ors, output>>

\* No regular expression is used and Value.Match is not called.
MatchSame == UNCHANGED <<RStart, RLength, ignCase, regexps>>

\* No pattern is evaluated.
LatchSame == UNCHANGED latchVars

\* The way records are split into fields is left alone.
ModeSame == UNCHANGED <<fieldWidths, fPat, lastMode>>

\* No record is read from the script's own stream.
ReadSame == UNCHANGED <<RT, delivered>>

\* What only Run, GetLine on another reader and the assignments to the
\* exported fields change.
Apart == UNCHANGED <<libVars, exitBegin, auxFirst, copied, origin>>

Elsewhere == UNCHANGED <<ConvFmt, auxCalls>> /\ Apart

\* Run returns res to its caller (or a panic leaves it).
ReturnNil(res) ==
  /\ pc' = "idle" /\ ruleIdx' = 0 /\ runResult' = "nil"
  /\ runs' = runs

Return(res) ==
  /\ pc' = "idle" /\ ruleIdx' = 0 /\ runResult' = res
  /\ runs' = runs

\* The statement after the rule loop of Run: stop the script or go on with
\* the next record.
AfterRules(stp) ==
  IF stp = "stopScript"
  THEN Return("nil")
  ELSE pc' = "loop" /\ ruleIdx' = 0
       /\ UNCHANGED <<runs, runResult>>

\* The rule loop advances past rule k.
NextRule(k, stp) ==
  IF k < Len(rules)
  THEN pc' = "pattern" /\ ruleIdx' = k + 1
       /\ UNCHANGED <<runs, runResult>>
  ELSE AfterRules(stp)

\* abortScript: inside Run the scriptAborter panic becomes Run's error;
\* outside Run it reaches the caller.
abortScript(msg) ==
  /\ stop' = "stopScript"
  /\ lastOk' = FALSE
  /\ IF pc = "idle"
     THEN UNCHANGED ctlVars
     ELSE Return(msg)

\* ---------------------------------------------------------------- AppendStmt
AppendStmt(st) ==
  /\ pc = "idle" \/ InCallback
  /\ lastCall' = "AppendStmt"
  /\ IF state # "notRunning"
     THEN /\ abortScript(ErrAppendStmt)
          /\ UNCHANGED <<rules, inRange>>
     ELSE /\ Len(rules) < MaxRules
          /\ rules' = Append(rules, st)
          /\ inRange' = Append(inRange, NewLatches(st))
          /\ lastOk' = TRUE
          /\ UNCHANGED <<stop, ctlVars>>
  /\ UNCHANGED <<NR, NF, nf0, rs, fs, fields, Begin, End, state, input,
                 rsScanner, getlineState>>
  /\ calls' = (IF pc = "idle" THEN calls ELSE calls + 1)
  /\ UNCHANGED <<nread, recNo, beginCount, endCount, patResult, acted,
                 exitRule, exitRec, eofSeen>>
  /\ NoArgs /\ RecSame /\ OutSame /\ MatchSame
  /\ UNCHANGED <<latch0, evalHist>>
  /\ ModeSame /\ ReadSame /\ Elsewhere

\* The latches of the rules' range patterns when Run begins: Run
\* reinitializes input, ConvFmt, NF and NR, and the latches live in the
\* patterns' closures, which Run does not touch.
latchesReset(l) == [k \in DOMAIN l |-> [i \in DOMAIN l[k] |-> FALSE]]

latchesAtRun(l) == l

\* ---------------------------------------------------------------- Run
\* Run up to the call of the Begin action, or up to the record loop when
\* there is none.
Run(r) ==
  /\ pc = "idle"
  /\ runs < MaxRuns
  /\ runs' = runs + 1
  /\ input' = r
  /\ NF' = 0 /\ NR' = 0
  /\ runResult' = "none"
  /\ ruleIdx' = 0
  /\ IF Begin
     THEN /\ state' = "atBegin"
          /\ pc' = "begin"
          /\ UNCHANGED rsScanner
     ELSE /\ rsScanner' = NewScanner(r, rs)
          /\ state' = "inMiddle"
          /\ pc' = "loop"
  /\ lastCall' = "Run" /\ lastOk' = TRUE
  /\ nread' = 0 /\ recNo' = 0 /\ calls' = calls
  /\ beginCount' = (IF Begin THEN 1 ELSE 0) /\ endCount' = 0
  /\ patResult' = NoPat /\ acted' = {}
  /\ exitRule' = 0 /\ exitRec' = 0 /\ eofSeen' = FALSE
  /\ UNCHANGED <<nf0, rs, fs, fields, rules, Begin, End, stop, getlineState>>
  /\ NoArgs /\ UNCHANGED <<ofs, ors>> /\ output' = <<>>
  /\ MatchSame
  /\ recText' = <<>> /\ wrote' = {} /\ conf' = FALSE /\ nfLow' = 0
  /\ latch0' = inRange /\ evalHist' = [k \in 1..MaxRules |-> <<>>]
  /\ inRange' = latchesAtRun(inRange)
  /\ ConvFmt' = convFmt /\ delivered' = <<>>
  /\ UNCHANGED <<RT, auxCalls>> /\ ModeSame
  /\ UNCHANGED <<libVars, auxFirst, copied, origin>> /\ exitBegin' = FALSE

\* The Begin action returns: Run makes the record scanner and enters the
\* record loop.
BeginReturn ==
  /\ pc = "begin"
  /\ rsScanner' = NewScanner(input, rs)
  /\ state' = "inMiddle"
  /\ pc' = "loop"
  /\ lastCall' = "BeginReturn" /\ lastOk' = TRUE
  /\ UNCHANGED <<NR, NF, nf0, rs, fs, fields, rules, Begin, End, stop, input,
                 getlineState>>
  /\ UNCHANGED <<ruleIdx, runs, runResult>>
  /\ UNCHANGED <<calls, nread, recNo, beginCount, endCount, patResult, acted,
                 exitRule, exitRec, eofSeen>>
  /\ NoArgs /\ RecSame /\ OutSame /\ MatchSame /\ LatchSame
  /\ ModeSame /\ ReadSame /\ Elsewhere

\* After the record loop: call the End action, if any; without one Run is
\* over.
ProcessEndSkipped ==
  /\ state' = "notRunning"
  /\ Return("nil")
  /\ UNCHANGED endCount

ProcessEnd ==
  IF End
  THEN /\ state' = "atEnd"
       /\ pc' = "end" /\ ruleIdx' = 0
       /\ endCount' = endCount + 1
       /\ UNCHANGED <<runs, runResult>>
  ELSE /\ state' = "notRunning"
       /\ Return("nil")
       /\ UNCHANGED endCount

\* One turn of the record loop: clear the stop state, read a record, count
\* it, split it and enter the rule loop; at end of input go to End.
ReadRecord ==
  /\ pc = "loop"
  /\ stop' = "dontStop"
  /\ lastCall' = "ReadRecord" /\ lastOk' = TRUE
  /\ LET r == readRecord(rsScanner)
         sp == splitRecord(fs, rs, r.rec, r.cache)
     IN IF r.ok
        THEN /\ rsScanner' = [rsScanner EXCEPT !.data = r.rest]
             /\ NR' = NR + 1
             /\ nread' = nread + 1 /\ recNo' = recNo + 1
             /\ patResult' = NoPat /\ acted' = {}
             /\ UNCHANGED <<state, endCount, eofSeen>>
             /\ IF sp.err # "nil"
                THEN /\ Return(sp.err)
                     /\ UNCHANGED <<fields, NF, nf0>>
                ELSE /\ fields' = sp.fields
                     /\ NF' = Len(sp.fields) - 1
                     /\ nf0' = Len(sp.fields) - 1
                     /\ NextRule(0, "dontStop")
             /\ IF sp.err # "nil"
                THEN RecSame
                ELSE /\ recText' = r.rec /\ wrote' = {} /\ conf' = FALSE
                     /\ nfLow' = Len(sp.fields) - 1
        ELSE /\ UNCHANGED <<rsScanner, NR, nread, recNo, patResult, acted,
                            fields, NF, nf0>>
             /\ RecSame
             /\ IF r.err # "EOF"
                THEN /\ Return(r.err)
                     /\ UNCHANGED <<state, endCount, eofSeen>>
                ELSE /\ eofSeen' = TRUE
                     /\ ProcessEnd
  /\ UNCHANGED <<rs, fs, rules, Begin, End, input, getlineState>>
  /\ UNCHANGED <<calls, beginCount, exitRule, exitRec>>
  /\ regexps' = (IF readRecord(rsScanner).ok
                  THEN splitRecord(fs, rs, readRecord(rsScanner).rec,
                                   readRecord(rsScanner).cache).cache
                  ELSE readRecord(rsScanner).cache)
  /\ UNCHANGED <<RStart, RLength, ignCase>>
  /\ NoArgs /\ OutSame /\ LatchSame
  /\ RT' = readRecord(rsScanner).rt
  /\ delivered' = (IF readRecord(rsScanner).ok
                   THEN Append(delivered, readRecord(rsScanner).rec)
                   ELSE delivered)
  /\ ModeSame /\ Elsewhere

\* The function Range(p1, p2) returns, called with inRange = on: the
\* result and the new inRange.
RangeOpenEnd(on, p1, p2) ==
  IF on
  THEN [m |-> ~p2, on |-> ~p2]
  ELSE [m |-> p1, on |-> p1]

Range(on, p1, p2) ==
  IF on
  THEN [m |-> TRUE, on |-> ~p2]
  ELSE [m |-> p1, on |-> p1]

\* The function Auto returns for an even number of arguments n: every
\* range Range(Auto(n[2i-1]), Auto(n[2i])) is called, the result is true if
\* one of them is.
AutoShortCircuit(on, n) ==
  LET step(i) == Range(on[i], NR = n[2 * i - 1], NR = n[2 * i])
      cut(i) == \E j \in 1..(i - 1) : step(j).m
  IN [m |-> \E i \in 1..Len(on) : step(i).m,
      on |-> [i \in 1..Len(on) |-> IF cut(i) THEN on[i] ELSE step(i).on],
      ms |-> [i \in 1..Len(on) |-> ~cut(i) /\ step(i).m]]

Auto(on, n) ==
  LET step(i) == Range(on[i], NR = n[2 * i - 1], NR = n[2 * i])
  IN [m |-> \E i \in 1..Len(on) : step(i).m,
      on |-> [i \in 1..Len(on) |-> step(i).on],
      ms |-> [i \in 1..Len(on) |-> step(i).m]]

\* matchAny or the function Auto(n) returns for an int n.
PatternIgnoresNR(st) == state = "inMiddle"

Pattern(st) ==
  IF st.pat = "any" THEN state = "inMiddle" ELSE NR = st.n

\* The rule loop evaluates the pattern of rule ruleIdx and calls its action
\* if the pattern is true.  The function Auto returns for a string compiles
\* it at every call and matches it against F(0); an expression that does
\* not compile aborts the script.
EvalPattern ==
  /\ pc = "pattern"
  /\ lastCall' = "Pattern"
  /\ LET st == rules[ruleIdx]
         c == compileRegexp(st.n, ignCase, regexps)
         stale == st.pat = "re" /\ NF # nf0
         flds == IF stale THEN recomputeF0(fields, NF, ofs) ELSE fields
         text == IF Len(flds) >= 1 THEN flds[1] ELSE <<>>
         ev == IF st.pat = "range"
               THEN Auto(inRange[ruleIdx], st.n)
               ELSE [m |-> IF st.pat = "re"
                           THEN FindIndex(c.re, text).found
                           ELSE Pattern(st),
                     on |-> inRange[ruleIdx], ms |-> <<>>]
         m == ev.m
     IN IF st.pat = "re" /\ c.err # "nil"
        THEN /\ abortScript(c.err)
             /\ UNCHANGED <<patResult, acted, fields, nf0, regexps, latchVars>>
        ELSE /\ patResult' = [patResult EXCEPT ![ruleIdx] =
                                IF m THEN "true" ELSE "false"]
             /\ inRange' = [inRange EXCEPT ![ruleIdx] = ev.on]
             /\ evalHist' = IF st.pat = "range"
                            THEN [evalHist EXCEPT ![ruleIdx] =
                                    Append(@, [nr |-> NR, m |-> ev.m,
                                               ms |-> ev.ms])]
                            ELSE evalHist
             /\ UNCHANGED latch0
             /\ fields' = flds
             /\ nf0' = (IF stale THEN NF ELSE nf0)
             /\ regexps' = (IF st.pat = "re" THEN c.cache ELSE regexps)
             /\ lastOk' = TRUE
             /\ UNCHANGED stop
             /\ IF m
                THEN /\ pc' = "action"
                     /\ acted' = acted \cup {ruleIdx}
                     /\ UNCHANGED <<ruleIdx, runs, runResult>>
                ELSE /\ NextRule(ruleIdx, stop)
                     /\ UNCHANGED acted
  /\ UNCHANGED <<NR, NF, rs, fs, rules, Begin, End, state, input, rsScanner,
                 getlineState, ofs, ors, output, RStart, RLength, ignCase>>
  /\ UNCHANGED <<calls, nread, recNo, beginCount, endCount, exitRule, exitRec,
                 eofSeen>>
  /\ NoArgs /\ RecSame
  /\ ModeSame /\ ReadSame /\ Elsewhere

\* The test the rule loop makes when an action has returned: it leaves the
\* loop when the action called Next or Exit or aborted the script.
neverBreaks(stp) == FALSE

breaksLoop(stp) == stp # "dontStop"

\* A user action returns to the rule loop, which leaves the loop if the
\* action set a stop state.
ActionReturn ==
  /\ InRule
  /\ IF breaksLoop(stop)
     THEN AfterRules(stop)
     ELSE NextRule(ruleIdx, stop)
  /\ lastCall' = "ActionReturn" /\ lastOk' = TRUE
  /\ UNCHANGED scriptVars
  /\ UNCHANGED <<calls, nread, recNo, beginCount, endCount, patResult, acted,
                 exitRule, exitRec, eofSeen>>
  /\ NoArgs /\ RecSame /\ LatchSame
  /\ ModeSame /\ ReadSame /\ Elsewhere

\* The nil action, printRecord, writes fields[0] and ORS to Output and
\* returns to the rule loop.
printRecord ==
  /\ pc = "action" /\ rules[ruleIdx].act = "print"
  /\ output' = Append(output, fields[1] \o ors)
  /\ IF stop # "dontStop"
     THEN AfterRules(stop)
     ELSE NextRule(ruleIdx, stop)
  /\ lastCall' = "printRecord" /\ lastOk' = TRUE
  /\ UNCHANGED <<NR, NF, nf0, rs, fs, fields, rules, Begin, End, state, stop,
                 input, rsScanner, getlineState, ofs, ors>>
  /\ NoArgs /\ RecSame /\ MatchSame /\ LatchSame
  /\ UNCHANGED <<calls, nread, recNo, beginCount, endCount, patResult, acted,
                 exitRule, exitRec, eofSeen>>
  /\ ModeSame /\ ReadSame /\ Elsewhere

\* The End action returns and Run returns nil.
EndReturn ==
  /\ pc = "end"
  /\ state' = "notRunning"
  /\ Return("nil")
  /\ lastCall' = "EndReturn" /\ lastOk' = TRUE
  /\ UNCHANGED <<NR, NF, nf0, rs, fs, fields, rules, Begin, End, stop, input,
                 rsScanner, getlineState>>
  /\ UNCHANGED <<calls, nread, recNo, beginCount, endCount, patResult, acted,
                 exitRule, exitRec, eofSeen>>
  /\ NoArgs /\ RecSame /\ OutSame /\ MatchSame /\ LatchSame
  /\ ModeSame /\ ReadSame /\ Elsewhere

\* ---------------------------------------------------------------- methods
\* What a method call leaves alone when it returns to the callback (or to
\* the caller of the package when no script is running).
StaysInCallback == UNCHANGED <<pc, ruleIdx, runs, runResult>>

HistSame ==
  /\ calls' = (IF pc = "idle" THEN calls ELSE calls + 1)
  /\ UNCHANGED <<recNo, beginCount, endCount, patResult, acted, eofSeen>>

\* Next: record the stop state and panic with a recordStopper.  The rule
\* loop of Run recovers it; nothing recovers it in Begin or End.
Next_ ==
  /\ InCallback
  /\ lastCall' = "Next"
  /\ stop' = (IF stop = "dontStop" THEN "stopRec" ELSE stop)
  /\ IF pc = "action"
     THEN AfterRules(stop') /\ lastOk' = TRUE
     ELSE Return(PanicNext) /\ lastOk' = FALSE
  /\ UNCHANGED <<NR, NF, nf0, rs, fs, fields, rules, Begin, End, state, input,
                 rsScanner, getlineState>>
  /\ HistSame /\ UNCHANGED <<nread, exitRule, exitRec>>
  /\ NoArgs /\ RecSame /\ OutSame /\ MatchSame /\ LatchSame
  /\ ModeSame /\ ReadSame /\ Elsewhere

\* Exit: record the stop state and return to the callback.
Exit ==
  /\ InCallback
  /\ lastCall' = "Exit" /\ lastOk' = TRUE
  /\ stop' = (IF stop = "dontStop" THEN "stopScript" ELSE stop)
  /\ StaysInCallback
  /\ IF pc = "action" /\ exitRule = 0
     THEN exitRule' = ruleIdx /\ exitRec' = recNo
     ELSE UNCHANGED <<exitRule, exitRec>>
  /\ UNCHANGED <<NR, NF, nf0, rs, fs, fields, rules, Begin, End, state, input,
                 rsScanner, getlineState>>
  /\ HistSame /\ UNCHANGED nread
  /\ NoArgs /\ RecSame /\ OutSame /\ MatchSame /\ LatchSame
  /\ ModeSame /\ ReadSame /\ UNCHANGED <<ConvFmt, auxCalls, libVars>>
  /\ exitBegin' = (exitBegin \/ pc = "begin")
  /\ UNCHANGED <<auxFirst, copied, origin>>

\* The test SetRS makes before it assigns.
SetRSRefusedOutsideIdle == state # "notRunning"

SetRSRefused == state = "inMiddle"

\* SetRS: refused while records are being read.
SetRS(r) ==
  /\ pc = "idle" \/ InCallback
  /\ lastCall' = "SetRS"
  /\ IF SetRSRefused
     THEN /\ abortScript(ErrSetRS)
          /\ UNCHANGED rs
     ELSE /\ rs' = r
          /\ lastOk' = TRUE
          /\ StaysInCallback
          /\ UNCHANGED stop
  /\ UNCHANGED <<NR, NF, nf0, fs, fields, rules, Begin, End, state, input,
                 rsScanner, getlineState>>
  /\ HistSame /\ UNCHANGED <<nread, exitRule, exitRec>>
  /\ NoArgs /\ RecSame /\ OutSame /\ MatchSame /\ LatchSame
  /\ ModeSame /\ ReadSame /\ Elsewhere

\* SetFS.
SetFS(f) ==
  /\ InCallback
  /\ lastCall' = "SetFS" /\ lastOk' = TRUE
  /\ fs' = f
  /\ StaysInCallback
  /\ UNCHANGED <<NR, NF, nf0, rs, fields, rules, Begin, End, state, stop,
                 input, rsScanner, getlineState>>
  /\ HistSame /\ UNCHANGED <<nread, exitRule, exitRec>>
  /\ NoArgs /\ RecSame /\ OutSame /\ MatchSame /\ LatchSame
  /\ fieldWidths' = Nil /\ fPat' = <<>>
  /\ lastMode' = [kind |-> "FS", arg |-> f]
  /\ ReadSame /\ Elsewhere

\* SetF forces field 0 to be recomputed at its next read.
F0Kept == nf0' = nf0

MarkF0Stale == nf0' = -1

\* SetF(i, v): field 0 reparses the record (the error of splitRecord is
\* dropped); another index extends the fields up to i and writes field i.
SetF(i, v) ==
  /\ InCallback
  /\ lastCall' = "SetF" /\ lastOk' = TRUE
  /\ lastArg' = i /\ lastRet' = <<>>
  /\ IF i = 0
     THEN LET sp == splitRecord(fs, rs, v, regexps)
          IN IF sp.err # "nil"
             THEN UNCHANGED <<fields, NF, nf0>> /\ RecSame
             ELSE /\ fields' = sp.fields
                  /\ NF' = Len(sp.fields) - 1
                  /\ nf0' = Len(sp.fields) - 1
                  /\ recText' = v /\ wrote' = {} /\ conf' = FALSE
                  /\ nfLow' = Len(sp.fields) - 1
     ELSE LET ext == IF i >= Len(fields)
                     THEN fields \o [j \in 1..(i + 1 - Len(fields)) |-> <<>>]
                     ELSE fields
          IN /\ fields' = [ext EXCEPT ![i + 1] = v]
             /\ NF' = (IF i >= Len(fields) THEN Len(ext) - 1 ELSE NF)
             /\ MarkF0Stale
             /\ wrote' = wrote \cup {i}
             /\ UNCHANGED <<recText, conf, nfLow>>
  /\ StaysInCallback
  /\ UNCHANGED <<NR, rs, fs, rules, Begin, End, state, stop, input,
                 rsScanner, getlineState>>
  /\ HistSame /\ UNCHANGED <<nread, exitRule, exitRec>>
  /\ regexps' = (IF i = 0 THEN splitRecord(fs, rs, v, regexps).cache
                  ELSE regexps)
  /\ UNCHANGED <<RStart, RLength, ignCase>>
  /\ OutSame /\ LatchSame
  /\ ModeSame /\ ReadSame /\ Elsewhere

\* An assignment to the exported field NF.
AssignNF(k) ==
  /\ InCallback
  /\ lastCall' = "AssignNF" /\ lastOk' = TRUE
  /\ lastArg' = k /\ lastRet' = <<>>
  /\ NF' = k
  /\ StaysInCallback
  /\ UNCHANGED <<NR, nf0, rs, fs, fields, rules, Begin, End, state, stop,
                 input, rsScanner, getlineState>>
  /\ HistSame /\ UNCHANGED <<nread, exitRule, exitRec>>
  /\ conf' = TRUE /\ nfLow' = (IF k < nfLow THEN k ELSE nfLow)
  /\ wrote' = {w \in wrote : w <= k}
  /\ UNCHANGED recText
  /\ OutSame /\ MatchSame /\ LatchSame
  /\ ModeSame /\ ReadSame /\ Elsewhere

\* F(i): the field, or an empty Value for an index the slice does not
\* hold.  Field 0 is recomputed first when NF is not the NF it was
\* computed for.
F(i) ==
  /\ InUserCode
  /\ lastCall' = "F" /\ lastOk' = TRUE
  /\ lastArg' = i
  /\ LET stale == i = 0 /\ NF # nf0
         flds == IF stale THEN recomputeF0(fields, NF, ofs) ELSE fields
     IN /\ fields' = flds
        /\ nf0' = (IF stale THEN NF ELSE nf0)
        /\ lastRet' = (IF i < Len(flds) THEN flds[i + 1] ELSE <<>>)
  /\ StaysInCallback
  /\ UNCHANGED <<NR, NF, rs, fs, rules, Begin, End, state, stop, input,
                 rsScanner, getlineState>>
  /\ UNCHANGED <<calls, recNo, beginCount, endCount, patResult, acted, eofSeen,
                 nread, exitRule, exitRec>>
  /\ RecSame /\ OutSame /\ MatchSame /\ LatchSame
  /\ ModeSame /\ ReadSame /\ Elsewhere

\* SetOFS: assign OFS and recompute field 0.
SetOFS(sep) ==
  /\ InCallback
  /\ lastCall' = "SetOFS" /\ lastOk' = TRUE
  /\ ofs' = sep
  /\ fields' = recomputeF0(fields, NF, sep)
  /\ nf0' = NF
  /\ StaysInCallback
  /\ UNCHANGED <<NR, NF, rs, fs, rules, Begin, End, state, stop, input,
                 rsScanner, getlineState, ors, output>>
  /\ HistSame /\ UNCHANGED <<nread, exitRule, exitRec>>
  /\ NoArgs /\ conf' = TRUE /\ UNCHANGED <<recText, wrote, nfLow>>
  /\ MatchSame /\ LatchSame
  /\ ModeSame /\ ReadSame /\ Elsewhere

\* SetORS.
SetORS(sep) ==
  /\ InCallback
  /\ lastCall' = "SetORS" /\ lastOk' = TRUE
  /\ ors' = sep
  /\ StaysInCallback
  /\ UNCHANGED <<NR, NF, nf0, rs, fs, fields, rules, Begin, End, state, stop,
                 input, rsScanner, getlineState, ofs, output>>
  /\ HistSame /\ UNCHANGED <<nread, exitRule, exitRec>>
  /\ NoArgs /\ RecSame /\ MatchSame /\ LatchSame
  /\ ModeSame /\ ReadSame /\ Elsewhere

\* GetLine(nil) has read record r: the scanner advances and NR counts it.
GetLineNotCounted(r) ==
  /\ rsScanner' = [rsScanner EXCEPT !.data = r.rest]
  /\ NR' = NR
  /\ nread' = nread + 1

GetLineCounted(r) ==
  /\ rsScanner' = [rsScanner EXCEPT !.data = r.rest]
  /\ NR' = NR + 1
  /\ nread' = nread + 1

\* GetLine(nil): the next record of the script's own scanner.  Before the
\* first Run has made a scanner the call dereferences a nil pointer.
GetLine ==
  /\ InCallback
  /\ lastCall' = "GetLine"
  /\ lastArg' = 0
  /\ IF ~rsScanner.open
     THEN /\ Return(PanicNilScanner)
          /\ lastOk' = FALSE /\ lastRet' = <<>>
          /\ UNCHANGED <<rsScanner, NR, nread, regexps>>
          /\ ReadSame
     ELSE LET r == readRecord(rsScanner)
          IN /\ StaysInCallback
             /\ lastOk' = r.ok /\ lastRet' = r.rec
             /\ regexps' = r.cache
             /\ RT' = r.rt
             /\ IF r.ok
                THEN GetLineCounted(r) /\ delivered' = Append(delivered, r.rec)
                ELSE UNCHANGED <<rsScanner, NR, nread, delivered>>
  /\ UNCHANGED <<NF, nf0, rs, fs, fields, rules, Begin, End, state, stop,
                 input, getlineState>>
  /\ HistSame /\ UNCHANGED <<exitRule, exitRec>>
  /\ UNCHANGED <<RStart, RLength, ignCase>>
  /\ RecSame /\ OutSame /\ LatchSame
  /\ ModeSame /\ Elsewhere

\* The largest number of GetLine calls on the auxiliary reader that are
\* made while no script runs.
MaxAux == 3

\* The scanner GetLine(r) reads from: the one registered for the reader, or
\* at the first call a new one made with the RS of that moment.
\* The copy GetLine(r) registers for a reader nobody read from yet: a new
\* scanner on the reader, and the RS, IgnoreCase and compiled expressions the
\* script has at that moment.
shadowCopy ==
  [open |-> TRUE, data |-> AuxInput,
   term |-> IF Len(rs) = 1 THEN rs[1] ELSE "", fails |-> FALSE,
   rs |-> rs, ignCase |-> ignCase, regexps |-> regexps]

auxScannerFresh == shadowCopy

auxScanner ==
  IF getlineState.open
  THEN getlineState
  ELSE shadowCopy

\* The script whose RS and IgnoreCase the splitter of the registered scanner
\* reads: the copy.
primaryConfig(sc) == [rs |-> rs, ignCase |-> ignCase]

shadowConfig(sc) == [rs |-> sc.rs, ignCase |-> sc.ignCase]

\* GetLine(r) on the auxiliary reader: the first call registers a copy of
\* the script with a scanner of its own; every call reads from that scanner
\* and returns the record or io.EOF.
getLineReader ==
  /\ lastCall' = "GetLineAux"
  /\ LET sc == auxScanner
         cfg == shadowConfig(sc)
         r == readRecordWith(sc, cfg.rs, cfg.ignCase, sc.regexps, <<>>)
     IN /\ getlineState' = [sc EXCEPT !.data = IF r.ok THEN r.rest ELSE @,
                                      !.regexps = r.cache]
        /\ lastOk' = r.ok
        /\ lastArg' = 0 /\ lastRet' = r.rec
  /\ auxCalls' = auxCalls + 1
  /\ StaysInCallback
  /\ UNCHANGED <<NR, NF, nf0, rs, fs, fields, rules, Begin, End, state, stop,
                 input, rsScanner>>
  /\ HistSame /\ UNCHANGED <<nread, exitRule, exitRec>>
  /\ RecSame /\ OutSame /\ MatchSame /\ LatchSame
  /\ ModeSame /\ ReadSame
  /\ UNCHANGED <<ConvFmt, libVars, exitBegin, copied, origin>>
  /\ auxFirst' = (IF getlineState.open THEN auxFirst
                  ELSE [rs |-> rs, ignCase |-> ignCase])

\* GetLine(r) called by a callback.
GetLineAux == InCallback /\ getLineReader

\* GetLine(r) called while no script runs.
GetLineIdle == pc = "idle" /\ auxCalls < MaxAux /\ getLineReader

\* ---------------------------------------------------------------- Value
\* Value.Match: an expression that does not compile returns false at once;
\* otherwise RStart and RLength record the match or its absence.
Match(v, expr) ==
  /\ pc = "idle" \/ InUserCode
  /\ lastCall' = "Match" /\ lastArg' = expr /\ lastRet' = <<>>
  /\ LET c == compileRegexp(expr, ignCase, regexps)
         loc == FindIndex(c.re, v)
     IN IF c.err # "nil"
        THEN /\ lastOk' = FALSE
             /\ UNCHANGED <<RStart, RLength, regexps>>
        ELSE /\ regexps' = c.cache
             /\ lastOk' = loc.found
             /\ RStart' = (IF loc.found THEN loc.lo + 1 ELSE 0)
             /\ RLength' = (IF loc.found THEN loc.hi - loc.lo ELSE -1)
  /\ UNCHANGED <<NR, NF, nf0, rs, fs, fields, rules, Begin, End, state, stop,
                 input, rsScanner, getlineState, ofs, ors, output, ignCase>>
  /\ UNCHANGED ctlVars
  /\ UNCHANGED <<calls, recNo, beginCount, endCount, patResult, acted, eofSeen,
                 nread, exitRule, exitRec>>
  /\ RecSame /\ LatchSame
  /\ ModeSame /\ ReadSame /\ Elsewhere

\* IgnoreCase.
IgnoreCase(ign) ==
  /\ pc = "idle" \/ InCallback
  /\ lastCall' = "IgnoreCase" /\ lastOk' = TRUE
  /\ ignCase' = ign
  /\ StaysInCallback
  /\ UNCHANGED <<NR, NF, nf0, rs, fs, fields, rules, Begin, End, state, stop,
                 input, rsScanner, getlineState, ofs, ors, output,
                 RStart, RLength, regexps>>
  /\ HistSame /\ UNCHANGED <<nread, exitRule, exitRec>>
  /\ NoArgs /\ RecSame /\ LatchSame
  /\ ModeSame /\ ReadSame /\ Elsewhere

\* ---------------------------------------------------------------- Next
Next ==
  \/ \E st \in Statements : AppendStmt(st)
  \/ \E r \in Inputs : Run(r)
  \/ BeginReturn
  \/ ReadRecord
  \/ EvalPattern
  \/ ActionReturn
  \/ printRecord
  \/ EndReturn
  \/ Next_
  \/ Exit
  \/ \E r \in RSValues : SetRS(r)
  \/ \E f \in FSValues : SetFS(f)
  \/ \E i \in {0, 1, MaxField} : SetF(i, IF i = 0 THEN RecordValue ELSE FieldValue)
  \/ \E k \in {1, MaxField} : AssignNF(k)
  \/ GetLine
  \/ GetLineAux

Spec == Init /\ [][Next]_vars

\* A script whose callbacks work on the fields of the record: they write
\* and read fields, assign NF and set the separators.
NextFields ==
  \/ \E st \in Statements : AppendStmt(st)
  \/ Run(DataReader)
  \/ BeginReturn
  \/ ReadRecord
  \/ EvalPattern
  \/ ActionReturn
  \/ printRecord
  \/ EndReturn
  \/ \E f \in FSValues : SetFS(f)
  \/ \E i \in {0, 1, MaxField} : SetF(i, IF i = 0 THEN RecordValue ELSE FieldValue)
  \/ \E k \in {1, MaxField} : AssignNF(k)
  \/ \E sep \in OFSValues : SetOFS(sep)
  \/ \E sep \in ORSValues : SetORS(sep)
  \/ \E i \in 0..MaxField : F(i)

SpecFields == Init /\ [][NextFields]_vars

\* A program that matches a Value against expressions and switches
\* IgnoreCase in between.
NextMatch ==
  \/ \E expr \in MatchExprs : Match(MatchText, expr)
  \/ \E ign \in BOOLEAN : IgnoreCase(ign)

SpecMatch == Init /\ [][NextMatch]_vars

\* Scripts whose rules have range patterns on NR; their actions call Next
\* and GetLine, so that a pattern is not evaluated on every record.
RangeStatements == [pat : {"range"}, n : RangeArgs, act : {"user"}]

NextRange ==
  \/ \E st \in RangeStatements : AppendStmt(st)
  \/ Run(LinesReader)
  \/ BeginReturn
  \/ ReadRecord
  \/ EvalPattern
  \/ ActionReturn
  \/ EndReturn
  \/ Next_
  \/ GetLine

SpecRange == Init /\ [][NextRange]_vars

\* Scripts that switch IgnoreCase while they run: RS is a regular
\* expression and a rule's pattern is Auto of a string.
CaseStatements ==
  [pat : {"re"}, n : {CaseExpr}, act : {"user"}]
    \cup [pat : {"any"}, n : {0}, act : {"user"}]

NextCase ==
  \/ \E st \in CaseStatements : AppendStmt(st)
  \/ SetRS(CaseRS)
  \/ \E ign \in BOOLEAN : IgnoreCase(ign)
  \/ Run(CaseReader)
  \/ BeginReturn
  \/ ReadRecord
  \/ EvalPattern
  \/ ActionReturn
  \/ EndReturn

SpecCase == Init /\ [][NextCase]_vars

TypeOK ==
  /\ NR \in Nat /\ NF \in Nat /\ nf0 \in Int
  /\ state \in {"notRunning", "atBegin", "inMiddle", "atEnd"}
  /\ stop \in {"dontStop", "stopRec", "stopScript"}
  /\ pc \in {"idle", "begin", "loop", "pattern", "action", "end"}
  /\ runResult \in {"none", "nil"} \cup Errors \cup Panics
  /\ Len(rules) <= MaxRules
  /\ calls \in 0..MaxCalls

\* ---------------------------------------------------------------- properties

\* Run has returned nil after its record loop saw the end of the input.
RanToEOF == pc = "idle" /\ runResult = "nil" /\ eofSeen

\* C1: in a run that reaches the end of the input, Begin (if set) runs
\* once and before the record loop reads a record, every rule runs after
\* Begin, before End and in state inMiddle, and End (if set) runs once, after
\* the input is exhausted.
C1_BeginRulesEnd ==
  /\ pc = "begin" => beginCount = 1 /\ recNo = 0 /\ endCount = 0
                     /\ state = "atBegin"
  /\ pc \in {"pattern", "action"} =>
       /\ state = "inMiddle"
       /\ beginCount = (IF Begin THEN 1 ELSE 0)
       /\ endCount = 0
  /\ pc = "end" => eofSeen /\ endCount = 1 /\ rsScanner.data = <<>>
                   /\ beginCount = (IF Begin THEN 1 ELSE 0)
  /\ RanToEOF => /\ beginCount = (IF Begin THEN 1 ELSE 0)
                 /\ endCount = (IF End THEN 1 ELSE 0)

C1_Witness ==
  RanToEOF /\ Begin /\ End /\ recNo = 2 /\ Len(rules) = 2
  /\ beginCount = 1 /\ endCount = 1

\* C2: for each record the rules are tried in the order of their
\* appending, a rule's action runs iff its own pattern was true, and a
\* pattern sees what earlier actions did to NR.
C2_RuleOrder ==
  /\ pc \in {"pattern", "action"} =>
       /\ \A k \in 1..Len(rules) :
            /\ k < ruleIdx => patResult[k] # "none"
            /\ k > ruleIdx => patResult[k] = "none"
       /\ patResult[ruleIdx] = (IF pc = "pattern" THEN "none" ELSE "true")
  /\ acted = {k \in 1..MaxRules : patResult[k] = "true"}
  /\ (pc = "action" /\ lastCall = "Pattern" /\ rules[ruleIdx].pat = "nr")
       => NR = rules[ruleIdx].n

\* The second rule, Auto(2), fires on the first record of the loop because
\* the first rule's action read a record with GetLine.
C2_Witness ==
  /\ pc = "action" /\ ruleIdx = 2 /\ rules[2].pat = "nr"
  /\ recNo = 1 /\ NR = 2 /\ patResult[1] = "true"

\* C3: NR is the number of records read from the script's own stream in
\* this run; a read by the record loop or by GetLine(nil) adds one, nothing
\* decreases NR within a run, and GetLine on the auxiliary reader leaves NR
\* alone.
C3_NRCountsReads ==
  [][/\ NR' = nread'
     /\ lastCall' = "Run" => NR' = 0
     /\ lastCall' # "Run" => NR' >= NR
     /\ (lastCall' \in {"ReadRecord", "GetLine"}
           /\ rsScanner'.data # rsScanner.data) => NR' = NR + 1
     /\ lastCall' = "GetLineAux" => NR' = NR]_vars

C3_Witness ==
  lastCall = "GetLine" /\ lastOk /\ pc = "action" /\ recNo = 1 /\ NR = 2

\* C4: Next called by a rule action ends the action and the rules of this
\* record, and the record loop goes on with the next record.
C4_NextContinues ==
  (lastCall = "Next" /\ lastOk) => pc = "loop"

\* C5: after a rule action called Exit no later rule runs for this record,
\* no rule runs for a later record and Run returns without an error.
C5_ExitStopsRules ==
  exitRule # 0 =>
    /\ pc \in {"pattern", "action"} =>
         pc = "action" /\ ruleIdx = exitRule /\ recNo = exitRec
    /\ pc # "loop"
    /\ pc = "idle" => runResult = "nil"

\* C6: when Run returns nil after a rule action called Exit, the End action
\* (if set) has run once.
C6_EndAfterExit ==
  (pc = "idle" /\ runResult = "nil" /\ exitRule # 0 /\ End) => endCount = 1

\* C7: whenever Run has returned the script is notRunning.
C7_NotRunningAfterRun ==
  pc = "idle" => state = "notRunning"

\* C8: SetRS assigns RS when the script is notRunning or atBegin; called by
\* a rule action it leaves RS alone, no further record is read and Run
\* returns the error "SetRS was called from a running script".
C8_SetRS ==
  [][lastCall' = "SetRS" =>
       /\ state \in {"notRunning", "atBegin"} =>
            /\ lastOk' /\ rs' \in RSValues
            /\ pc' = pc /\ runResult' = runResult
       /\ pc = "action" =>
            /\ state = "inMiddle"
            /\ ~lastOk' /\ rs' = rs
            /\ pc' = "idle"
            /\ runResult' = "SetRS was called from a running script"
            /\ rsScanner' = rsScanner /\ NR' = NR]_vars

C8_Witness ==
  /\ lastCall = "SetRS" /\ ~lastOk /\ pc = "idle"
  /\ runResult = ErrSetRS /\ rs = <<"/">> /\ recNo = 1

\* C9: a call of Next or Exit by a callback of Run never makes Run return
\* an error or panic.
C9_NextExitAbsorbed ==
  lastCall \in {"Next", "Exit"} => runResult \notin (Errors \cup Panics)

\* C10: after a record read by the record loop, and after a SetF or an
\* assignment to NF made by a rule action, there are NF + 1 fields.
C10_FieldCount ==
  (\/ lastCall \in {"SetF", "AssignNF"} /\ pc = "action"
   \/ lastCall = "ReadRecord" /\ pc \in {"pattern", "loop"})
    => Len(fields) = NF + 1

\* The strings of fields 1..NF joined with the current OFS.
JoinedFields == Join(FStrings(fields, NF), ofs)

\* C11 as stated: the read of field 0 after SetF wrote a field of the
\* record is the fields 1..NF joined with OFS, and a record none of whose
\* fields was written reads as its original text.
C11_UnwrittenKeepsText ==
  (lastCall = "F" /\ lastArg = 0) =>
    IF wrote # {} THEN lastRet = JoinedFields ELSE lastRet = recText

\* C11: the read of field 0 after SetF wrote a field of the record is the
\* fields 1..NF joined with OFS; a record none of whose fields was written,
\* whose NF was not assigned and during which OFS was not set reads as its
\* original text.
C11_FieldZero ==
  (lastCall = "F" /\ lastArg = 0) =>
    /\ wrote # {} => lastRet = JoinedFields
    /\ (wrote = {} /\ ~conf) => lastRet = recText

\* A rule action set OFS to "-", wrote field 1 of the record "a b" and read
\* field 0.
C11_Witness ==
  /\ lastCall = "F" /\ lastArg = 0 /\ pc = "action"
  /\ wrote = {1} /\ ofs = <<"-">> /\ lastRet = <<"x", "-", "b">>

\* C12: SetF(i, v) with i > NF sets NF to i, stores v at i, leaves the
\* positions between the old NF and i empty and fields 1..old NF as they
\* were; with 1 <= i <= NF it changes field i only.
C12_SetFFrame ==
  [][(lastCall' = "SetF" /\ lastArg' >= 1) =>
       LET i == lastArg'
           old == FStrings(fields, NF)
           new == FStrings(fields', NF')
       IN IF i > NF
          THEN /\ NF' = i
               /\ new[i] = FieldValue
               /\ \A j \in (NF + 1)..(i - 1) : new[j] = <<>>
               /\ \A j \in 1..NF : new[j] = old[j]
          ELSE /\ NF' = NF
               /\ new[i] = FieldValue
               /\ \A j \in (1..NF) \ {i} : new[j] = old[j]]_vars

\* C13: F(i) with i > NF returns the empty string and changes neither the
\* fields nor NF.
C13_FBeyondNF ==
  [][(lastCall' = "F" /\ lastArg' > NF) =>
       lastRet' = <<>> /\ fields' = fields /\ NF' = NF]_vars

\* C14: once a rule action lowered NF to k, the fields after k are gone: a
\* position after the least NF of this record holds the empty string unless
\* SetF wrote it since, and field 0 reads as fields 1..k joined with OFS.
C14_LoweredNFTruncates ==
  pc = "action" =>
    /\ \A j \in 1..(Len(fields) - 1) :
         (j > nfLow /\ j \notin wrote) => fields[j + 1] = <<>>
    /\ (lastCall = "F" /\ lastArg = 0 /\ NF = nfLow /\ wrote = {}
          /\ nfLow < Len(fields) - 1) => lastRet = JoinedFields

\* C15: SetF(0, v) makes v the record: field 0 is v, NF is the number of
\* fields of v under the field separator in force and fields 1..NF are the
\* split of v; NR is unchanged.
C15_SetFZero ==
  [][(lastCall' = "SetF" /\ lastArg' = 0) =>
       /\ Len(fields') >= 1 /\ fields'[1] = RecordValue
       /\ NF' = Len(fields') - 1
       /\ fs = <<" ">> => fields' = <<RecordValue, <<"x">>, <<"y", ",", "z">> >>
       /\ fs = <<",">> => fields' = <<RecordValue, <<"x", " ", "y">>, <<"z">> >>
       /\ NR' = NR]_vars

\* C16: a rule with a nil pattern fires on every record, and the nil
\* action writes what F(0) is at that moment, followed by ORS, and nothing
\* else.
C16_DefaultAction ==
  [][/\ (lastCall' = "Pattern" /\ rules[ruleIdx].pat = "any") => pc' = "action"
     /\ lastCall' = "printRecord" =>
          output' = Append(output,
                           (IF NF # nf0 THEN JoinedFields ELSE fields[1]) \o ors)]_vars

\* C17: after every Match call the result is true iff RStart >= 1 iff
\* RLength >= 0, a match of "b" in "aBab" gives RStart 4 and RLength 1 (2
\* and 1 when case is ignored), and in every state RStart is 0 exactly when
\* RLength is -1.
C17_MatchIndices ==
  /\ lastCall = "Match" =>
       /\ lastOk <=> RStart >= 1
       /\ lastOk <=> RLength >= 0
       /\ (lastOk /\ lastArg = <<"b">>) =>
            RStart = (IF ignCase THEN 2 ELSE 4) /\ RLength = 1
       /\ ~lastOk => RStart = 0 /\ RLength = -1
  /\ RStart = 0 <=> RLength = -1

\* The records of an evaluation history h (the NR of each evaluation) at
\* which an interval of range(NR = a, NR = b) begins: position 0 stands for
\* a latch that was on before the first evaluation; a later position begins
\* an interval if its record satisfies p1 and lies in no earlier interval.
RECURSIVE Opens(_, _, _, _, _)
Opens(h, a, b, on0, s) ==
  IF s = 0 THEN on0
  ELSE /\ h[s].nr = a
       /\ ~\E t \in 0..(s - 1) :
             /\ Opens(h, a, b, on0, t)
             /\ \A k \in (t + 1)..(s - 1) : h[k].nr # b

\* Evaluation n lies in an interval: one begins at or before n and no
\* record after its beginning and before n satisfies p2.
InInterval(h, a, b, on0, n) ==
  \E s \in 0..n :
    /\ Opens(h, a, b, on0, s)
    /\ \A k \in (s + 1)..(n - 1) : h[k].nr # b

\* The rules whose pattern is one range, and those with two.
OneRange == {k \in 1..Len(rules) : rules[k].pat = "range" /\ Len(rules[k].n) = 2}
TwoRanges == {k \in 1..Len(rules) : rules[k].pat = "range" /\ Len(rules[k].n) = 4}

\* C18 as stated: within a run a range pattern is true exactly on the
\* evaluated records of the intervals from a record satisfying p1 to the
\* next one satisfying p2.
C18_RangeWithinRun ==
  \A k \in OneRange : \A n \in 1..Len(evalHist[k]) :
    evalHist[k][n].m =
      InInterval(evalHist[k], rules[k].n[1], rules[k].n[2], FALSE, n)

\* C18: over the records a range pattern is evaluated on in a run, it is
\* true exactly on the intervals from a record satisfying p1 (or from the
\* first evaluated record, if an earlier run left the latch on) to the next
\* record satisfying p2, both included.
C18_RangeIntervals ==
  \A k \in OneRange : \A n \in 1..Len(evalHist[k]) :
    evalHist[k][n].m =
      InInterval(evalHist[k], rules[k].n[1], rules[k].n[2], latch0[k][1], n)

\* The second run of range(NR = 3, NR = 1): the first run ended inside the
\* interval, record 1 is in it and ends it, record 2 is outside.
C18_Witness ==
  /\ runs = 2 /\ Len(rules) >= 1 /\ rules[1].n = <<3, 1>>
  /\ Len(evalHist[1]) = 2
  /\ latch0[1] = <<TRUE>>
  /\ evalHist[1][1].nr = 1 /\ evalHist[1][1].m
  /\ evalHist[1][2].nr = 2 /\ ~evalHist[1][2].m

\* C19: a pattern of two ranges is true iff one of the ranges is, and on
\* every evaluation each range is what it would be as the only pattern.
C19_AutoRanges ==
  \A k \in TwoRanges : \A n \in 1..Len(evalHist[k]) :
    LET e == evalHist[k][n]
        a == rules[k].n
    IN /\ e.m = (e.ms[1] \/ e.ms[2])
       /\ e.ms[1] = InInterval(evalHist[k], a[1], a[2], latch0[k][1], n)
       /\ e.ms[2] = InInterval(evalHist[k], a[3], a[4], latch0[k][2], n)

\* Auto(1, 2, 2, 3) on records 1, 2, 3: the second range begins on record
\* 2, on which the first range is true as well.
C19_Witness ==
  /\ Len(rules) >= 1 /\ rules[1].n = <<1, 2, 2, 3>>
  /\ Len(evalHist[1]) = 3
  /\ evalHist[1][2].nr = 2 /\ evalHist[1][2].ms = <<TRUE, TRUE>>
  /\ evalHist[1][3].nr = 3 /\ evalHist[1][3].ms = <<FALSE, TRUE>>

\* The text t occurs in d at offset p, ignoring case if fold.
Occurs(t, d, p, fold) ==
  /\ p + Len(t) <= Len(d)
  /\ EqFold(SubSeq(d, p + 1, p + Len(t)), t, fold)

\* C20: every regular expression is used with the IgnoreCase in force at
\* that use.  A record read with a regular expression RS ends before the
\* leftmost text of the stream that matches RS under the current
\* IgnoreCase (or is the rest of the stream if there is none), and the
\* pattern Auto made of a string is true iff the string occurs in F(0) under
\* the current IgnoreCase.
C20_IgnoreCaseTakesEffect ==
  [][/\ (/\ lastCall' = "ReadRecord" /\ rsScanner.term = ""
         /\ rsScanner'.data # rsScanner.data) =>
          LET d == rsScanner.data
              n == Len(recText')
              ends == {p \in 0..Len(d) : Occurs(rs, d, p, ignCase)}
          IN /\ recText' = SubSeq(d, 1, n)
             /\ \A p \in ends : p >= n
             /\ IF ends = {}
                THEN n = Len(d) /\ rsScanner'.data = <<>>
                ELSE /\ n \in ends
                     /\ rsScanner'.data = SubSeq(d, n + Len(rs) + 1, Len(d))
     /\ (lastCall' = "Pattern" /\ rules[ruleIdx].pat = "re" /\ pc' # "idle") =>
          ((patResult'[ruleIdx] = "true") <=>
             \E p \in 0..Len(recText) :
               Occurs(rules[ruleIdx].n, recText, p, ignCase))]_vars

\* In one run the first record was read with case observed, a rule action
\* then set IgnoreCase, and the pattern Auto("C") is true on the third
\* record "c", which ended at "XY".
C20_Witness ==
  /\ runs = 1 /\ pc = "action" /\ ruleIdx = 1 /\ rules[1].pat = "re"
  /\ recNo = 3 /\ recText = <<"c">> /\ ignCase
  /\ \E c \in regexps : c.key = CaseRS
  /\ \E c \in regexps : c.key = IgnPrefix \o CaseRS

\* ---------------------------------------------------------------- GetLine
\* Scripts whose callbacks read records of the script's own stream with
\* GetLine, end the record with Next or the script with Exit.
GetLineInputs == {Reader(Lines, FALSE), Reader(Data, FALSE)}

NextGetLine ==
  \/ AppendStmt(AnyStatement)
  \/ \E r \in GetLineInputs : Run(r)
  \/ BeginReturn
  \/ ReadRecord
  \/ EvalPattern
  \/ ActionReturn
  \/ EndReturn
  \/ GetLine
  \/ Next_
  \/ Exit

SpecGetLine == Init /\ [][NextGetLine]_vars

\* The records of a stream whose records end with the character c: the
\* texts before each c and a non-empty rest after the last one.
RECURSIVE Records(_, _)
Records(data, c) ==
  LET k == TermIndex(data, c, 1)
  IN IF data = <<>> THEN <<>>
     ELSE IF k = 0 THEN <<data>>
          ELSE <<SubSeq(data, 1, k - 1)>>
                 \o Records(SubSeq(data, k + 1, Len(data)), c)

IsPrefix(p, q) == Len(p) <= Len(q) /\ SubSeq(q, 1, Len(p)) = p

\* C21: the records handed out in a run, to the rule loop or as the result
\* of GetLine(nil), are the records of the stream given to this Run, each
\* once and in order, and all of them when the run reaches the end of the
\* stream; the rule loop goes on with the record after the ones GetLine
\* returned; GetLine returns to its caller, changes neither NF nor the
\* fields, and at the end of the stream returns EOF and leaves NR alone.
C21_GetLineDelivers ==
  [][/\ IsPrefix(delivered', Records(input'.data, rs'[1]))
     /\ RanToEOF' => delivered' = Records(input'.data, rs'[1])
     /\ (lastCall' = "ReadRecord" /\ delivered' # delivered) =>
          fields'[1] = Records(input.data, rs[1])[Len(delivered) + 1]
     /\ lastCall' = "GetLine" =>
          /\ pc' = pc /\ runResult' = runResult
          /\ NF' = NF /\ fields' = fields
          /\ IF lastOk'
             THEN /\ lastRet' = Records(input.data, rs[1])[Len(delivered) + 1]
                  /\ delivered' = Append(delivered, lastRet')
                  /\ NR' = NR + 1
             ELSE /\ delivered = Records(input.data, rs[1])
                  /\ lastRet' = <<>> /\ NR' = NR /\ delivered' = delivered]_vars

\* Scripts that read an auxiliary reader with GetLine, from callbacks and
\* between runs, and change RS.
NextAux ==
  \/ AppendStmt(AnyStatement)
  \/ \E r \in RSValues : SetRS(r)
  \/ Run(LinesReader)
  \/ BeginReturn
  \/ ReadRecord
  \/ EvalPattern
  \/ ActionReturn
  \/ EndReturn
  \/ GetLineAux
  \/ GetLineIdle

SpecAux == Init /\ [][NextAux]_vars

\* C22: the k-th GetLine call on the auxiliary reader returns the k-th
\* record of that reader (under the RS in force at the first call) and the
\* calls after the last record return EOF, whatever was read from the
\* script's own stream in between; the call changes none of NR, NF, the
\* fields and RT of the script.
C22_AuxInOrder ==
  [][lastCall' = "GetLineAux" =>
       LET recs == Records(AuxInput, getlineState'.term)
       IN /\ auxCalls' = auxCalls + 1
          /\ IF auxCalls' <= Len(recs)
             THEN lastOk' /\ lastRet' = recs[auxCalls']
             ELSE ~lastOk' /\ lastRet' = <<>>
          /\ NR' = NR /\ NF' = NF /\ fields' = fields /\ RT' = RT]_vars

\* The first call was made before RS became "/" and returned "p"; the
\* second one, made by a rule action on the script's first record, returns
\* "q".
C22_Witness ==
  /\ lastCall = "GetLineAux" /\ pc = "action" /\ rs = <<"/">>
  /\ auxCalls = 2 /\ lastRet = <<"q">> /\ NR = 1

\* C23: when the rule loop starts on a record, RT is the text of the stream
\* between the end of that record and the start of the rest of the stream:
\* the RS character or the text RS matched, and the empty string for a last
\* record that the end of the stream ended.
C23_RTIsTerminator ==
  [][(lastCall' = "ReadRecord" /\ pc' = "pattern") =>
       LET d == rsScanner.data
           n == Len(recText')
           rest == rsScanner'.data
       IN /\ recText' = SubSeq(d, 1, n)
          /\ rest = SubSeq(d, Len(d) - Len(rest) + 1, Len(d))
          /\ RT' = SubSeq(d, n + 1, Len(d) - Len(rest))]_vars

\* ---------------------------------------------------------------- Println
\* The conversion formats a caller assigns and the arguments given to
\* Println: none, one string, two strings.
ConvFmtValues == {"%.2f"}
PrintArgs == {Nil, <<FieldValue>>, <<FieldValue, <<"y">> >>}

\* An assignment to the exported field ConvFmt.
AssignConvFmt(f) ==
  /\ pc = "idle" \/ InCallback
  /\ lastCall' = "AssignConvFmt" /\ lastOk' = TRUE
  /\ ConvFmt' = f
  /\ StaysInCallback
  /\ UNCHANGED <<NR, NF, nf0, rs, fs, fields, rules, Begin, End, state, stop,
                 input, rsScanner, getlineState>>
  /\ HistSame /\ UNCHANGED <<nread, exitRule, exitRec>>
  /\ NoArgs /\ RecSame /\ OutSame /\ MatchSame /\ LatchSame
  /\ ModeSame /\ ReadSame /\ UNCHANGED auxCalls /\ Apart

\* Println: without arguments every field 1..NF followed by OFS, the last
\* one by ORS; with arguments every argument followed by OFS, the last one
\* by ORS.  What the call writes is one element of output.
Println(args) ==
  /\ InCallback
  /\ lastCall' = "Println" /\ lastOk' = TRUE
  /\ lastArg' = args /\ lastRet' = <<>>
  /\ LET strs == IF args = Nil THEN FStrings(fields, NF) ELSE args
     IN output' = Append(output,
                         IF Len(strs) = 0 THEN <<>> ELSE Join(strs, ofs) \o ors)
  /\ StaysInCallback
  /\ UNCHANGED <<NR, NF, nf0, rs, fs, fields, rules, Begin, End, state, stop,
                 input, rsScanner, getlineState, ofs, ors>>
  /\ HistSame /\ UNCHANGED <<nread, exitRule, exitRec>>
  /\ RecSame /\ MatchSame /\ LatchSame
  /\ ModeSame /\ ReadSame /\ Elsewhere

\* Scripts that are run twice: their callbacks read fields, assign NF and
\* ConvFmt, set the output separators and print.
NextPrint ==
  \/ \E st \in Statements : AppendStmt(st)
  \/ Run(DataReader)
  \/ BeginReturn
  \/ ReadRecord
  \/ EvalPattern
  \/ ActionReturn
  \/ printRecord
  \/ EndReturn
  \/ \E k \in {1, MaxField} : AssignNF(k)
  \/ \E f \in ConvFmtValues : AssignConvFmt(f)
  \/ \E i \in 0..MaxField : F(i)
  \/ \E sep \in OFSValues : SetOFS(sep)
  \/ \E sep \in ORSValues : SetORS(sep)
  \/ \E args \in PrintArgs : Println(args)

SpecPrint == Init /\ [][NextPrint]_vars

\* C24: Run starts with NR = 0, NF = 0 and ConvFmt = "%.6g"; the rule loop
\* starts on the k-th record of a run with NR = k; and every run shows the
\* script what the first run shows: a Begin action that reads a field
\* before it wrote one, assigned NF or set OFS reads the empty string.
C24_RunStartsAfresh ==
  /\ lastCall = "Run" => NR = 0 /\ NF = 0 /\ ConvFmt = convFmt
  /\ (lastCall = "ReadRecord" /\ pc = "pattern") => NR = recNo
  /\ (lastCall = "F" /\ pc = "begin" /\ wrote = {} /\ recText = <<>> /\ ~conf)
       => lastRet = <<>>

\* C29: a Println call writes one output record: without arguments the
\* fields 1..NF joined with OFS and then ORS, whatever NF is; with arguments
\* the arguments joined with OFS and then ORS.
C29_PrintlnRecord ==
  [][lastCall' = "Println" =>
       output' = Append(output,
                        (IF lastArg' = Nil
                         THEN JoinedFields
                         ELSE Join(lastArg', ofs)) \o ors)]_vars

\* ---------------------------------------------------------------- errors of a run
\* Scripts whose input ends with a read error or whose actions set an FS
\* that does not compile.
NextErr ==
  \/ \E st \in Statements : AppendStmt(st)
  \/ \E r \in Inputs : Run(r)
  \/ BeginReturn
  \/ ReadRecord
  \/ EvalPattern
  \/ ActionReturn
  \/ printRecord
  \/ EndReturn
  \/ \E f \in FSValues : SetFS(f)

SpecErr == Init /\ [][NextErr]_vars

\* C25: when the read of a record fails with the reader's error, or the
\* record that was read cannot be split because FS does not compile, Run
\* returns that error at once: the rule loop is not entered, the End action
\* is not called, and the fields and the output written so far stay as they
\* are.
C25_RunReturnsError ==
  [][lastCall' = "ReadRecord" =>
       LET readFails == rsScanner.fails /\ rsScanner.data = <<>>
           splitFails == rsScanner.data # <<>> /\ fs = BadRegexp
       IN /\ readFails => runResult' = ErrRead
          /\ splitFails => runResult' = ErrRegexp
          /\ (readFails \/ splitFails) =>
               /\ pc' = "idle"
               /\ endCount' = endCount
               /\ fields' = fields /\ output' = output]_vars

\* The action of the first rule set the FS "((" on record 1 and the second
\* rule printed that record; the split of record 2 fails and Run returns
\* the error with the output of record 1 in place and without calling End.
C25_Witness ==
  /\ lastCall = "ReadRecord" /\ pc = "idle" /\ runResult = ErrRegexp
  /\ recNo = 2 /\ Len(output) = 1 /\ End /\ endCount = 0

\* ------------------------------------------------------- splitting modes
\* What SetFPat does to the field widths (KeepWidths: it leaves them).
KeepWidths == fieldWidths' = fieldWidths

DropWidths == fieldWidths' = Nil

\* SetFieldWidths(fw): a nil slice or a width that is not positive aborts
\* the script before anything is assigned; otherwise the widths are
\* stored and FS and the field pattern are reset.
SetFieldWidths(fw) ==
  /\ pc = "idle" \/ InCallback
  /\ lastCall' = "SetFieldWidths"
  /\ IF fw = Nil
     THEN /\ abortScript(ErrNilWidths)
          /\ UNCHANGED fs /\ ModeSame
     ELSE IF \E j \in 1..Len(fw) : fw[j] <= 0
          THEN /\ abortScript(ErrBadWidth)
               /\ UNCHANGED fs /\ ModeSame
          ELSE /\ fs' = <<" ">>
               /\ fieldWidths' = fw
               /\ fPat' = <<>>
               /\ lastMode' = [kind |-> "FieldWidths", arg |-> fw]
               /\ lastOk' = TRUE
               /\ StaysInCallback
               /\ UNCHANGED stop
  /\ UNCHANGED <<NR, NF, nf0, rs, fields, rules, Begin, End, state, input,
                 rsScanner, getlineState>>
  /\ HistSame /\ UNCHANGED <<nread, exitRule, exitRec>>
  /\ NoArgs /\ RecSame /\ OutSame /\ MatchSame /\ LatchSame
  /\ ReadSame /\ Elsewhere

\* SetFPat(fp): the pattern is stored, FS is reset and the widths dropped.
SetFPat(fp) ==
  /\ pc = "idle" \/ InCallback
  /\ lastCall' = "SetFPat" /\ lastOk' = TRUE
  /\ fs' = <<" ">>
  /\ DropWidths
  /\ fPat' = fp
  /\ lastMode' = [kind |-> "FPat", arg |-> fp]
  /\ StaysInCallback
  /\ UNCHANGED <<NR, NF, nf0, rs, fields, rules, Begin, End, state, stop,
                 input, rsScanner, getlineState>>
  /\ HistSame /\ UNCHANGED <<nread, exitRule, exitRec>>
  /\ NoArgs /\ RecSame /\ OutSame /\ MatchSame /\ LatchSame
  /\ ReadSame /\ Elsewhere

ModeData == <<"a", " ", "b", "\n", "c", ",", "d", "b">>
ModeReader == Reader(ModeData, FALSE)

NextModes ==
  \/ AppendStmt(AnyStatement)
  \/ \E f \in FSValues : SetFS(f)
  \/ \E w \in WidthValues : SetFieldWidths(w)
  \/ \E p \in FPatValues : SetFPat(p)
  \/ SetF(0, RecordValue)
  \/ Run(ModeReader)
  \/ BeginReturn
  \/ ReadRecord
  \/ EvalPattern
  \/ ActionReturn
  \/ EndReturn

SpecModes == Init /\ [][NextModes]_vars

\* The fields the mode m makes of the record rec, and whether it can.
ModeSplits(m) ==
  \/ m.kind = "FieldWidths"
  \/ m.kind = "FPat" /\ RegexpCompiles(m.arg)
  \/ m.kind = "FS" /\ m.arg # BadRegexp

ModeFields(m, rec) ==
  IF m.kind = "FieldWidths" THEN FixedFrom(m.arg, 1, rec, <<>>)
  ELSE IF m.kind = "FPat"
       THEN MatchesFrom(regexpCompile(m.arg).re, rec, <<>>)
  ELSE IF m.arg = <<" ">> THEN ScanWords(rec)
  ELSE makeSingleCharFieldSplitter(m.arg, rec).toks

\* C26: at most one of a field separator other than the default, field
\* widths and a field pattern is in force; each of SetFS, SetFieldWidths
\* and SetFPat that returns stores its argument and resets the other two;
\* and a record is split by the mode of the latest of them that returned.
C26_OneSplittingMode ==
  [][/\ ~(fieldWidths' # Nil /\ fPat' # <<>>)
     /\ ~(fieldWidths' # Nil /\ fs' # <<" ">>)
     /\ ~(fPat' # <<>> /\ fs' # <<" ">>)
     /\ (lastCall' = "SetFS" /\ lastOk') =>
          /\ lastMode'.kind = "FS" /\ fs' = lastMode'.arg
          /\ fieldWidths' = Nil /\ fPat' = <<>>
     /\ (lastCall' = "SetFieldWidths" /\ lastOk') =>
          /\ lastMode'.kind = "FieldWidths" /\ fieldWidths' = lastMode'.arg
          /\ fs' = <<" ">> /\ fPat' = <<>>
     /\ (lastCall' = "SetFieldWidths" /\ ~lastOk') =>
          UNCHANGED <<fs, fieldWidths, fPat, lastMode>>
     /\ (lastCall' = "SetFPat" /\ lastOk') =>
          /\ lastMode'.kind = "FPat" /\ fPat' = lastMode'.arg
          /\ fs' = <<" ">> /\ fieldWidths' = Nil
     /\ (lastCall' = "ReadRecord" /\ nread' = nread + 1
         /\ ModeSplits(lastMode)) =>
          fields' = <<recText'>> \o ModeFields(lastMode, recText')
     /\ (lastCall' = "SetF" /\ lastArg' = 0 /\ ModeSplits(lastMode)) =>
          fields' = <<RecordValue>> \o ModeFields(lastMode, RecordValue)]_vars

\* The second record of the input was split by a field pattern.
C26_Witness ==
  /\ lastCall = "ReadRecord" /\ nread = 2
  /\ lastMode.kind = "FPat" /\ lastMode.arg = <<"b">>
  /\ fields = << <<"c", ",", "d", "b">>, <<"b">> >>

\* ---------------------------------------------------------------- Value
\* A float64 is held in tenths (37 is 3.7), which is exact for every
\* number the inputs below give rise to.
Tenths == 10

DigitChars == <<"0", "1", "2", "3", "4", "5", "6", "7", "8", "9">>

IsDigit(c) == \E d \in 1..10 : DigitChars[d] = c

DigitVal(c) == (CHOOSE d \in 1..10 : DigitChars[d] = c) - 1

\* strconv.FormatInt(i, 10).
RECURSIVE FormatNat(_)
FormatNat(n) ==
  IF n < 10 THEN <<DigitChars[n + 1]>>
  ELSE FormatNat(n \div 10) \o <<DigitChars[(n % 10) + 1]>>

FormatInt(i) == IF i < 0 THEN <<"-">> \o FormatNat(-i) ELSE FormatNat(i)

\* fmt.Sprintf(format, f) for the formats "%.6g" (the shortest form: no
\* trailing zero, no trailing point) and "%.2f" (two decimals).
Sprintf(format, f) ==
  LET mag == IF f < 0 THEN -f ELSE f
      sign == IF f < 0 THEN <<"-">> ELSE <<>>
      whole == FormatNat(mag \div Tenths)
      frac == DigitChars[(mag % Tenths) + 1]
  IN IF format = convFmt
     THEN sign \o whole \o (IF mag % Tenths = 0 THEN <<>> ELSE <<".", frac>>)
     ELSE sign \o whole \o <<".", frac, "0">>

\* int(f): the conversion truncates towards zero.
IntOfFloat(f) == IF f < 0 THEN -((-f) \div Tenths) ELSE f \div Tenths

\* float64(i).
FloatOfInt(i) == i * Tenths

RECURSIVE SkipSpace(_)
SkipSpace(s) ==
  IF s # <<>> /\ IsSpace(s[1]) THEN SkipSpace(Tail(s)) ELSE s

\* The length of the run of digits s starts with.
RECURSIVE DigitLen(_)
DigitLen(s) ==
  IF s # <<>> /\ IsDigit(s[1]) THEN 1 + DigitLen(Tail(s)) ELSE 0

RECURSIVE ParseNat(_, _)
ParseNat(ds, acc) ==
  IF ds = <<>> THEN acc
  ELSE ParseNat(Tail(ds), acc * 10 + DigitVal(ds[1]))

\* matchInt, ^\s*([-+]?\d+), and strconv.ParseInt of what it captured; 0
\* when the string does not start with an integer.
matchInt(s) ==
  LET t == SkipSpace(s)
      signed == t # <<>> /\ t[1] \in {"-", "+"}
      u == IF signed THEN Tail(t) ELSE t
      n == DigitLen(u)
      mag == ParseNat(SubSeq(u, 1, n), 0)
  IN IF n = 0 THEN 0
     ELSE IF signed /\ t[1] = "-" THEN -mag ELSE mag

\* matchFloat, ^\s*([-+]?(?:\d+(?:\.\d*)?|\.\d+)...), and
\* strconv.ParseFloat of what it captured, in tenths; 0 when the string
\* does not start with a number.
matchFloat(s) ==
  LET t == SkipSpace(s)
      signed == t # <<>> /\ t[1] \in {"-", "+"}
      u == IF signed THEN Tail(t) ELSE t
      n == DigitLen(u)
      point == Len(u) > n /\ u[n + 1] = "."
      rest == IF point THEN SubSeq(u, n + 2, Len(u)) ELSE <<>>
      m == DigitLen(rest)
      mag == ParseNat(SubSeq(u, 1, n), 0) * Tenths
               + (IF m > 0 THEN DigitVal(rest[1]) ELSE 0)
  IN IF n = 0 /\ m = 0 THEN 0
     ELSE IF signed /\ t[1] = "-" THEN -mag ELSE mag

\* The inputs NewValue is given: integers, floats (in tenths) and strings.
ValueInputs ==
  [type : {"int"}, v : {7, -3}]
    \cup [type : {"float"}, v : {37, -25, 20}]
    \cup [type : {"string"},
          v : { <<"3", ".", "7">>, <<" ", "1", "2", "x">>, <<"x">>,
                <<"-", ".", "5">> }]

\* NewValue: the representation of the input's own type is the valid one.
newValue(x) ==
  IF x.type = "int"
  THEN [ZeroValue EXCEPT !.ival = x.v, !.ivalOk = TRUE]
  ELSE IF x.type = "float"
       THEN [ZeroValue EXCEPT !.fval = x.v, !.fvalOk = TRUE]
       ELSE [ZeroValue EXCEPT !.sval = x.v, !.svalOk = TRUE]

\* Value.Int: the value after the call; the result is its ival.
IntOf(v) ==
  IF v.ivalOk THEN v
  ELSE IF v.fvalOk
       THEN [v EXCEPT !.ival = IntOfFloat(v.fval), !.ivalOk = TRUE]
       ELSE IF v.svalOk
            THEN [v EXCEPT !.ival = matchInt(v.sval), !.ivalOk = TRUE]
            ELSE v

\* Value.Float64: the value after the call; the result is its fval.
Float64Of(v) ==
  IF v.fvalOk THEN v
  ELSE IF v.ivalOk
       THEN [v EXCEPT !.fval = FloatOfInt(v.ival), !.fvalOk = TRUE]
       ELSE IF v.svalOk
            THEN [v EXCEPT !.fval = matchFloat(v.sval), !.fvalOk = TRUE]
            ELSE v

\* Value.String: the value after the call; the result is its sval.
StringOf(v, format) ==
  IF v.svalOk THEN v
  ELSE IF v.ivalOk
       THEN [v EXCEPT !.sval = FormatInt(v.ival), !.svalOk = TRUE]
       ELSE IF v.fvalOk
            THEN [v EXCEPT !.sval = Sprintf(format, v.fval), !.svalOk = TRUE]
            ELSE v

ScriptSame == UNCHANGED <<scriptVars, ctlVars, latchVars>>

ArraySame == UNCHANGED <<arrayData, refData, arrayArg, arrayRet>>

PipeSame == UNCHANGED pipeVars

GhostSame ==
  UNCHANGED <<calls, lastOk, nread, recNo, beginCount, endCount, patResult,
              acted, exitRule, exitRec, eofSeen, lastArg, lastRet,
              recText, wrote, conf, nfLow, delivered, auxCalls, lastMode,
              exitBegin, auxFirst, copied, origin>>

NewValue(x) ==
  /\ pc = "idle"
  /\ lastCall' = "NewValue"
  /\ value' = newValue(x) /\ valueIn' = x /\ valueRet' = Nil
  /\ ArraySame /\ PipeSame /\ ScriptSame /\ GhostSame

ValueInt ==
  /\ pc = "idle" /\ valueIn # NoInput
  /\ lastCall' = "Int"
  /\ value' = IntOf(value) /\ valueRet' = IntOf(value).ival
  /\ UNCHANGED valueIn /\ ArraySame /\ PipeSame /\ ScriptSame /\ GhostSame

ValueFloat64 ==
  /\ pc = "idle" /\ valueIn # NoInput
  /\ lastCall' = "Float64"
  /\ value' = Float64Of(value) /\ valueRet' = Float64Of(value).fval
  /\ UNCHANGED valueIn /\ ArraySame /\ PipeSame /\ ScriptSame /\ GhostSame

ValueString ==
  /\ pc = "idle" /\ valueIn # NoInput
  /\ lastCall' = "String"
  /\ value' = StringOf(value, ConvFmt)
  /\ valueRet' = StringOf(value, ConvFmt).sval
  /\ UNCHANGED valueIn /\ ArraySame /\ PipeSame /\ ScriptSame /\ GhostSame

NextValue ==
  \/ \E x \in ValueInputs : NewValue(x)
  \/ ValueInt
  \/ ValueFloat64
  \/ ValueString

SpecValue == Init /\ [][NextValue]_vars

\* C27: every accessor returns what it returns on a Value freshly
\* constructed from the same input, whichever accessors were called on
\* the Value before: the integer itself and the integer as a float for an
\* integer input, the string itself for a string input.
C27_AccessorsOfInputAlone ==
  [][/\ lastCall' = "Int" =>
          /\ valueRet' = IntOf(newValue(valueIn)).ival
          /\ valueIn.type = "int" => valueRet' = valueIn.v
     /\ lastCall' = "Float64" =>
          /\ valueRet' = Float64Of(newValue(valueIn)).fval
          /\ valueIn.type = "int" => valueRet' = valueIn.v * Tenths
     /\ lastCall' = "String" =>
          /\ valueRet' = StringOf(newValue(valueIn), ConvFmt).sval
          /\ valueIn.type = "string" => valueRet' = valueIn.v]_vars

\* ---------------------------------------------------------------- ValueArray
\* Script.SubSep, the character U+001C.
SubSep == <<"\\034">>

IndexA == [type |-> "string", v |-> <<"a">>]
Index7 == [type |-> "int", v |-> 7]
IndexS7 == [type |-> "string", v |-> <<"7">>]
IndexJoined == [type |-> "string", v |-> <<"a">> \o SubSep \o <<"7">>]
IndexEmpty == [type |-> "string", v |-> <<>>]

\* The index lists of the calls: one index, two indices, and for Delete
\* also none (no argument, or the elements of an empty slice).
IndexArgs ==
  { <<IndexA>>, <<Index7>>, <<IndexS7>>, <<IndexJoined>>, <<IndexEmpty>>,
    <<IndexA, Index7>> }

DeleteArgs ==
  [nil : {FALSE}, idx : IndexArgs \cup {<<>>}]
    \cup {[nil |-> TRUE, idx |-> <<>>]}

StoredValues ==
  { [type |-> "string", v |-> <<"v">>], [type |-> "int", v |-> 7] }

\* The string an argument converts to: NewValue of it, then String.
Projection(x) == StringOf(newValue(x), ConvFmt).sval

\* The key of an index list: the one index's string, or the strings of
\* several joined with SubSep.
ArrayKey(idx) ==
  IF Len(idx) = 1 THEN Projection(idx[1])
  ELSE Join([j \in 1..Len(idx) |-> Projection(idx[j])], SubSep)

\* A map with the key k removed, and with k bound to v.
MapWithout(m, k) == [j \in DOMAIN m \ {k} |-> m[j]]

MapWith(m, k, v) == [j \in DOMAIN m \cup {k} |-> IF j = k THEN v ELSE m[j]]

EmptyMap == [j \in {} |-> ZeroValue]

ArrayFrame ==
  /\ pc = "idle"
  /\ UNCHANGED <<value, valueIn, valueRet>>
  /\ PipeSame /\ ScriptSame /\ GhostSame

\* Set(idx..., v): the last argument is bound to the key of the others.
Set(idx, v) ==
  /\ ArrayFrame
  /\ lastCall' = "Set"
  /\ arrayData' = MapWith(arrayData, ArrayKey(idx), newValue(v))
  /\ arrayArg' = idx /\ arrayRet' = Nil
  /\ refData' = MapWith(refData, ArrayKey(idx), Projection(v))

\* Get(idx...): the Value bound to the key, or the Value of "".
Get(idx) ==
  /\ ArrayFrame
  /\ lastCall' = "Get"
  /\ arrayArg' = idx
  /\ arrayRet' = (IF ArrayKey(idx) \in DOMAIN arrayData
                  THEN StringOf(arrayData[ArrayKey(idx)], ConvFmt).sval
                  ELSE Projection(IndexEmpty))
  /\ UNCHANGED <<arrayData, refData>>

\* Delete(args...): a nil argument list empties the array; any other
\* list, the empty one included, has the key it joins to deleted.
Delete(args) ==
  /\ ArrayFrame
  /\ lastCall' = "Delete"
  /\ arrayArg' = args.idx /\ arrayRet' = Nil
  /\ IF args.nil
     THEN arrayData' = EmptyMap
     ELSE arrayData' = MapWithout(arrayData, ArrayKey(args.idx))
  /\ refData' = (IF Len(args.idx) = 0
                 THEN [j \in {} |-> <<>>]
                 ELSE MapWithout(refData, ArrayKey(args.idx)))

NextArray ==
  \/ \E idx \in IndexArgs, v \in StoredValues : Set(idx, v)
  \/ \E idx \in IndexArgs : Get(idx)
  \/ \E args \in DeleteArgs : Delete(args)

SpecArray == Init /\ [][NextArray]_vars

\* C28: the array is the map from joined keys to the strings last set
\* and not deleted since (refData follows the calls as the claim reads
\* them: a delete without index empties it); get returns the string bound
\* to the key, or the empty string.
C28_ArrayIsMap ==
  [][/\ DOMAIN arrayData' = DOMAIN refData'
     /\ \A k \in DOMAIN arrayData' : StringOf(arrayData'[k], ConvFmt).sval = refData'[k]
     /\ lastCall' = "Get" =>
          arrayRet' = (IF ArrayKey(arrayArg') \in DOMAIN refData
                       THEN refData[ArrayKey(arrayArg')]
                       ELSE <<>>)]_vars

\* ---------------------------------------------------------------- pipeline
\* pipeline(source, s1, ..., sN): every script runs on a thread of its
\* own; conduit[k] carries the output of script k to script k + 1,
\* conduit[0] carries the source and conduit[MaxScripts] is the sink.
PipeInput == << <<1>>, <<2>>, <<3>> >>

Stages == 1..MaxScripts

\* What script k prints for a record: the record, marked by the script.
Emit(k, rec) == Append(rec, 10 + k)

\* The records script k prints for the input records recs.
RECURSIVE Through(_, _)
Through(k, recs) ==
  IF k = 0 THEN recs
  ELSE [j \in 1..Len(recs) |-> Emit(k, Through(k - 1, recs)[j])]

\* A conduit accepts a record: the sink always, the others while they
\* hold fewer than MaxConduit records.
HasRoom(k) == k = MaxScripts \/ Len(conduit[k]) < MaxConduit

\* Script k's input is at its end (AtEOFAnyTime: as soon as the writer
\* closed it, whatever it still holds).
AtEOFAnyTime(k) == closed[k - 1]

AtEOF(k) == closed[k - 1] /\ conduit[k - 1] = <<>>

PipeFrame ==
  /\ pc = "idle"
  /\ lastCall' = "RunPipeline"
  /\ UNCHANGED <<value, valueIn, valueRet>>
  /\ ArraySame /\ ScriptSame /\ GhostSame

\* The source writes its next record, and closes its conduit after the
\* last.
SourceWrite ==
  /\ PipeFrame
  /\ ~closed[0] /\ Len(sent) < Len(PipeInput) /\ HasRoom(0)
  /\ conduit' = [conduit EXCEPT ![0] = Append(@, PipeInput[Len(sent) + 1])]
  /\ sent' = Append(sent, PipeInput[Len(sent) + 1])
  /\ UNCHANGED <<closed, current, received, emitted, stage, returned>>

SourceClose ==
  /\ PipeFrame
  /\ ~closed[0] /\ Len(sent) = Len(PipeInput)
  /\ closed' = [closed EXCEPT ![0] = TRUE]
  /\ UNCHANGED <<conduit, sent, current, received, emitted, stage, returned>>

\* Script k reads its next record.
StageRead(k) ==
  /\ PipeFrame
  /\ stage[k] = "read" /\ conduit[k - 1] # <<>>
  /\ current' = [current EXCEPT ![k] = Head(conduit[k - 1])]
  /\ conduit' = [conduit EXCEPT ![k - 1] = Tail(@)]
  /\ received' = [received EXCEPT ![k] = Append(@, Head(conduit[k - 1]))]
  /\ stage' = [stage EXCEPT ![k] = "print"]
  /\ UNCHANGED <<closed, sent, emitted, returned>>

\* Script k prints the record of its rule into its output conduit.
StagePrint(k) ==
  /\ PipeFrame
  /\ stage[k] = "print" /\ HasRoom(k)
  /\ conduit' = [conduit EXCEPT ![k] = Append(@, Emit(k, current[k]))]
  /\ emitted' = [emitted EXCEPT ![k] = Append(@, Emit(k, current[k]))]
  /\ stage' = [stage EXCEPT ![k] = "read"]
  /\ UNCHANGED <<closed, sent, current, received, returned>>

\* Script k finds the end of its input: its run returns and its output
\* conduit is closed.
StageEnd(k) ==
  /\ PipeFrame
  /\ stage[k] = "read" /\ AtEOF(k)
  /\ stage' = [stage EXCEPT ![k] = "done"]
  /\ closed' = [closed EXCEPT ![k] = TRUE]
  /\ UNCHANGED <<conduit, sent, current, received, emitted, returned>>

\* pipeline returns once the run of every script has returned.
PipelineReturn ==
  /\ PipeFrame
  /\ ~returned /\ \A k \in Stages : stage[k] = "done"
  /\ returned' = TRUE
  /\ UNCHANGED <<conduit, closed, sent, current, received, emitted, stage>>

NextPipeline ==
  \/ SourceWrite
  \/ SourceClose
  \/ \E k \in Stages : StageRead(k)
  \/ \E k \in Stages : StagePrint(k)
  \/ \E k \in Stages : StageEnd(k)
  \/ PipelineReturn

SpecPipeline == Init /\ [][NextPipeline]_vars

RecordInputs ==
  { <<"a", "\n", "\n", "b">>, <<"a", "\n", "\n", "b", "\n">>,
    <<"\n", "a">>, <<"\n">>, <<"a", "/", "b", "/">>, <<"a", "/", "b">> }

RecordReaders == {Reader(d, FALSE) : d \in RecordInputs}

NextRecords ==
  \/ AppendStmt(AnyStatement)
  \/ \E r \in RSValues : SetRS(r)
  \/ \E r \in RecordReaders : Run(r)
  \/ BeginReturn
  \/ ReadRecord
  \/ EvalPattern
  \/ ActionReturn
  \/ EndReturn

SpecRecords == Init /\ [][NextRecords]_vars

\* The places of the terminator c in d, the j-th of them, and the
\* segments of d that end at them, followed by the text after the last
\* one when there is some.
TermPositions(d, c) == {i \in 1..Len(d) : d[i] = c}

NthPosition(d, c, j) ==
  IF j = 0 THEN 0
  ELSE CHOOSE i \in TermPositions(d, c) :
         Cardinality({k \in TermPositions(d, c) : k <= i}) = j

Segments(d, c) ==
  LET n == Cardinality(TermPositions(d, c))
      ended == [j \in 1..n |->
                  SubSeq(d, NthPosition(d, c, j - 1) + 1,
                         NthPosition(d, c, j) - 1)]
      last == NthPosition(d, c, n)
  IN IF last < Len(d)
     THEN Append(ended, SubSeq(d, last + 1, Len(d)))
     ELSE ended

\* The records readRecord hands out until it fails.
RECURSIVE ReadAll(_)
ReadAll(sc) ==
  IF readRecord(sc).ok
  THEN <<readRecord(sc).rec>>
         \o ReadAll([sc EXCEPT !.data = readRecord(sc).rest])
  ELSE <<>>

\* The input without its last character.
Front(d) == SubSeq(d, 1, Len(d) - 1)

ParagraphData ==
  <<"a", "\n", "b", ",", "c", "\n", "\n", "d", "\n", "\n", "\n",
    "e", ",", "f", "\n">>

ParagraphReader == Reader(ParagraphData, FALSE)

NextParagraph ==
  \/ AppendStmt(AnyStatement)
  \/ SetRS(<<>>)
  \/ SetFS(<<",">>)
  \/ Run(ParagraphReader)
  \/ BeginReturn
  \/ ReadRecord
  \/ EvalPattern
  \/ ActionReturn
  \/ EndReturn

SpecParagraph == Init /\ [][NextParagraph]_vars

\* The j-th smallest member of a set of positions; 0 before the first.
NthOf(P, j) ==
  IF j = 0 THEN 0
  ELSE CHOOSE i \in P : Cardinality({k \in P : k <= i}) = j

\* The pieces of d between the positions P, the one before the first and
\* the one after the last included.
PiecesBetween(d, P) ==
  LET n == Cardinality(P)
  IN [j \in 1..(n + 1) |->
        SubSeq(d, NthOf(P, j - 1) + 1,
               IF j = n + 1 THEN Len(d) ELSE NthOf(P, j) - 1)]

\* The newlines of d that have a newline next to them: the blank lines.
BlankLinePositions(d) ==
  {i \in 1..Len(d) :
     /\ d[i] = "\n"
     /\ \/ i > 1 /\ d[i - 1] = "\n"
        \/ i < Len(d) /\ d[i + 1] = "\n"}

\* The non-empty stretches of d between its blank lines.
Paragraphs(d) ==
  SelectSeq(PiecesBetween(d, BlankLinePositions(d)), LAMBDA x : x # <<>>)

\* C32: with an empty RS the records are the stretches of the input
\* between its blank lines, and with FS "," the fields of a record are
\* its pieces between the commas and newlines, in order.
C32_ParagraphMode ==
  [][(lastCall' = "ReadRecord" /\ nread' = nread + 1 /\ rs = <<>>) =>
       /\ recText' = Paragraphs(input.data)[nread']
       /\ fs = <<",">> =>
            /\ NF' = Len(fields') - 1
            /\ fields' = <<recText'>> \o
                 PiecesBetween(recText',
                   {i \in 1..Len(recText') : recText'[i] \in {",", "\n"}})]_vars

\* The first paragraph was read: a line, then a line of two fields.
C32_Witness ==
  /\ lastCall = "ReadRecord" /\ rs = <<>> /\ fs = <<",">> /\ nread = 1
  /\ fields = << <<"a", "\n", "b", ",", "c">>, <<"a">>, <<"b">>, <<"c">> >>

\* ---------------------------------------------------------------- Exit
NextExit ==
  \/ AppendStmt(AnyStatement)
  \/ Exit
  \/ SetF(1, FieldValue)
  \/ Run(DataReader)
  \/ BeginReturn
  \/ ReadRecord
  \/ EvalPattern
  \/ ActionReturn
  \/ EndReturn

SpecExit == Init /\ [][NextExit]_vars

\* C33: in a run whose Begin called Exit no record is read and no rule
\* acts.
C33_ExitInBegin ==
  exitBegin => (nread = 0 /\ pc \notin {"pattern", "action"})

\* C34: once an action has called Exit nothing more of the action runs:
\* the fields, NF and the output stay as Exit left them.
C34_ExitUnwinds ==
  [][(pc = "action" /\ stop = "stopScript") =>
       (fields' = fields /\ NF' = NF /\ output' = output)]_vars

\* ---------------------------------------------------------------------
\* The state a reader handed to GetLine keeps.  RS is changed and
\* IgnoreCase switched between calls of GetLine(r), in callbacks and
\* between runs.
ShadowRS == { <<"\n">>, <<"\n", "Q">> }

NextShadow ==
  \/ AppendStmt(AnyStatement)
  \/ \E r \in ShadowRS : SetRS(r)
  \/ \E b \in BOOLEAN : IgnoreCase(b)
  \/ Run(LinesReader)
  \/ BeginReturn
  \/ ReadRecord
  \/ EvalPattern
  \/ ActionReturn
  \/ EndReturn
  \/ GetLineAux
  \/ GetLineIdle

SpecShadow == Init /\ [][NextShadow]_vars

\* The records of a text under a terminator that is a regular expression:
\* the text before each match, and what follows the last match unless that
\* is empty.
RECURSIVE CutAt(_, _, _)
CutAt(d, lit, fold) ==
  LET at == {p \in 0..(Len(d) - Len(lit)) :
               EqFold(SubSeq(d, p + 1, p + Len(lit)), lit, fold)}
      p0 == CHOOSE p \in at : \A q \in at : p <= q
  IN IF at = {}
     THEN IF d = <<>> THEN <<>> ELSE <<d>>
     ELSE <<SubSeq(d, 1, p0)>>
            \o CutAt(SubSeq(d, p0 + Len(lit) + 1, Len(d)), lit, fold)

RecordsUnder(d, cfg) ==
  IF Len(cfg.rs) = 1 THEN Records(d, cfg.rs[1])
  ELSE CutAt(d, cfg.rs, cfg.ignCase)

\* C35: every GetLine(r) on the auxiliary reader returns the next record
\* of the reader's text split with the RS and the IgnoreCase setting the
\* script had at the first GetLine(r), whatever SetRS and IgnoreCase did
\* to the script since, in the same run or a later one; once the reader is
\* registered its registration is never replaced.
C35_ShadowCapturedAtFirstUse ==
  [][lastCall' = "GetLineAux" =>
       LET recs == RecordsUnder(AuxInput, auxFirst')
       IN /\ auxCalls' = auxCalls + 1
          /\ getlineState'.open
          /\ getlineState.open => auxFirst' = auxFirst
          /\ IF auxCalls' <= Len(recs)
             THEN lastOk' /\ lastRet' = recs[auxCalls']
             ELSE ~lastOk' /\ lastRet' = <<>>]_vars

\* The reader was first read with RS "\nQ" and IgnoreCase on, in an earlier
\* run; RS is "\n" and IgnoreCase off now, and the second call returns the
\* rest after the terminator found without regard to case.
C35_Witness ==
  /\ lastCall = "GetLineAux" /\ runs = 2 /\ pc = "action"
  /\ auxFirst = [rs |-> <<"\n", "Q">>, ignCase |-> TRUE]
  /\ rs = <<"\n">> /\ ~ignCase
  /\ auxCalls = 2 /\ lastOk /\ lastRet = <<"\n">>

\* C36: Run leaves every latch as the previous run left it, and a range
\* whose latch the previous run left on is true the first time the run
\* evaluates it, whether the record satisfies p1 or not, and stays on
\* unless that record satisfies p2.
C36_LatchesSurviveRuns ==
  [][/\ runs' = runs + 1 => inRange' = inRange
     /\ \A k \in OneRange :
          (/\ pc = "pattern" /\ ruleIdx = k /\ lastCall' = "Pattern"
           /\ k \in DOMAIN latch0 /\ latch0[k][1]
           /\ Len(evalHist[k]) = 0)
          => /\ patResult'[k] = "true"
             /\ inRange'[k][1] = (NR # rules[k].n[2])]_vars

\* The second run of a script whose rule is range(NR = 3, NR = 1): the
\* first run ended on record 3 with the latch on, and on record 1 of the
\* second run, which does not satisfy p1, the pattern is true and the
\* action runs.
C36_Witness ==
  /\ runs = 2 /\ pc = "action" /\ ruleIdx = 1 /\ NR = 1
  /\ rules[1].pat = "range" /\ rules[1].n = <<3, 1>>
  /\ Len(latch0) >= 1 /\ latch0[1] = <<TRUE>>
  /\ Len(evalHist[1]) = 1 /\ patResult[1] = "true"
  /\ inRange[1] = <<FALSE>>

\* -------------------------------------------------------------------- Copy
\* The field widths of a copy: a slice of its own, made with the length of
\* the original's and filled from it.  The slice made for an original that
\* has no widths has length 0 and is not nil.
copyWidths(fw) == IF fw = Nil THEN <<>> ELSE fw

\* Copy(), called while no Run is in progress.  From here on the script of
\* the model is the copy; origin keeps the slices and maps of the script it
\* was copied from, which only that script can change.  The copy's rules
\* hold the pattern closures of the original's rules, and its reader
\* registry holds the registered copy the original's registry holds.
Copy ==
  /\ pc = "idle" /\ ~copied
  /\ lastCall' = "Copy" /\ lastOk' = TRUE
  /\ copied' = TRUE
  /\ origin' = [fields |-> fields, rules |-> rules, regexps |-> regexps,
                fieldWidths |-> fieldWidths,
                registered |-> getlineState.open]
  /\ fieldWidths' = copyWidths(fieldWidths)
  /\ StaysInCallback
  /\ UNCHANGED <<NR, NF, nf0, rs, fs, fields, rules, Begin, End, state, stop,
                 input, rsScanner, getlineState, ofs, ors, output,
                 RStart, RLength, regexps, ignCase>>
  /\ HistSame /\ UNCHANGED <<nread, exitRule, exitRec>>
  /\ NoArgs /\ RecSame /\ LatchSame
  /\ UNCHANGED <<fPat, lastMode>> /\ ReadSame
  /\ UNCHANGED <<ConvFmt, auxCalls, libVars, exitBegin, auxFirst>>

\* A script is configured (FS in Begin of a first run, field widths or a
\* field pattern between runs), copied, and the copy is run.
NextClone ==
  \/ AppendStmt(AnyStatement)
  \/ ~copied /\ SetFS(<<",">>)
  \/ ~copied /\ SetFieldWidths(<<2, 1>>)
  \/ ~copied /\ SetFPat(<<"b">>)
  \/ Copy
  \/ Run(ModeReader)
  \/ BeginReturn
  \/ ReadRecord
  \/ EvalPattern
  \/ ActionReturn
  \/ EndReturn

SpecClone == Init /\ [][NextClone]_vars

\* C37: every record a copy reads gets the fields and the NF the script it
\* was copied from gives that record, whatever splitting mode the original
\* is in (field widths, a field pattern or a separator).
C37_CopyIsConfigurationClone ==
  [][(copied /\ lastCall' = "ReadRecord" /\ nread' = nread + 1) =>
       LET sp == makeFieldSplitterWith(origin.fieldWidths, fPat, fs, rs,
                                       recText', regexps)
       IN sp.err = "nil" =>
            /\ fields' = <<recText'>> \o sp.toks
            /\ NF' = Len(sp.toks)]_vars

\* What the script a copy was made from shares with the copy.  Copy copies
\* the statements of the rule list, and a statement holds its pattern as a
\* function value: the range patterns of the original's rules are the
\* closures the copy calls, latch included.  Copy copies the reader
\* registry entry by entry, and an entry is a pointer: the reader
\* registered before the copy has one scanner, which both scripts read.
originLatches == [k \in 1..Len(origin.rules) |-> inRange[k]]

originAux == IF origin.registered THEN getlineState.data ELSE <<>>

\* A script with range rules that has read from the auxiliary reader is
\* copied, and the copy is run, given rules and fields, and reads from the
\* auxiliary reader.
NextShare ==
  \/ AppendStmt(RangeStatement)
  \/ Copy
  \/ Run(LinesReader)
  \/ BeginReturn
  \/ ReadRecord
  \/ EvalPattern
  \/ ActionReturn
  \/ EndReturn
  \/ SetF(1, FieldValue)
  \/ GetLineAux
  \/ GetLineIdle

SpecShare == Init /\ [][NextShare]_vars

\* C38: nothing done on or by a copy changes what the script it was copied
\* from holds: its fields, its rule list, its regular-expression cache, the
\* latches of its range patterns and the read position of the auxiliary
\* reader it had registered.
C38_CopyIsIndependent ==
  [][copied =>
       /\ origin' = origin
       /\ originLatches' = originLatches
       /\ originAux' = originAux]_vars

\* -------------------------------------------------------------------- Auto
\* Arguments of Auto: ints, and float64s, a type Auto does not accept.
IntArg(x) == [kind |-> "int", n |-> x]
FloatArg(x) == [kind |-> "float64", n |-> x]

AutoArgs ==
  { <<>>, <<IntArg(2)>>, <<FloatArg(2)>>, <<IntArg(2), IntArg(3)>>,
    <<IntArg(1), FloatArg(2)>>, <<IntArg(1), IntArg(2), IntArg(3)>>,
    <<FloatArg(1), IntArg(2), IntArg(3)>>,
    <<IntArg(1), IntArg(2), IntArg(2), IntArg(3)>> }

PanicAutoType == "panic: Auto does not accept arguments of type float64"
PanicAutoArity == "panic: Auto expects 0, 1, or an even number of arguments"

AutoAccepts(a) == a.kind = "int"

\* Auto(v...): the pattern it returns, or the panic it raises.  No argument
\* gives matchAny.  An even number of arguments gives the ranges of the
\* patterns Auto makes of each argument and panics when one of those calls
\* does.  Every other length takes the branch of the single argument, which
\* looks at v[0] alone.
AutoPattern(v) ==
  IF Len(v) = 0
  THEN [panic |-> "nil", pat |-> "any", n |-> <<>>]
  ELSE IF Len(v) % 2 = 0
       THEN IF \E i \in 1..Len(v) : ~AutoAccepts(v[i])
            THEN [panic |-> PanicAutoType, pat |-> "none", n |-> <<>>]
            ELSE [panic |-> "nil", pat |-> "range",
                  n |-> [i \in 1..Len(v) |-> v[i].n]]
       ELSE IF Len(v) % 2 = 1
            THEN IF AutoAccepts(v[1])
                 THEN [panic |-> "nil", pat |-> "nr", n |-> <<v[1].n>>]
                 ELSE [panic |-> PanicAutoType, pat |-> "none", n |-> <<>>]
            ELSE [panic |-> PanicAutoArity, pat |-> "none", n |-> <<>>]

\* The statement AppendStmt gets for a pattern Auto returned.
AutoStatement(a) ==
  [pat |-> a.pat,
   n |-> IF a.pat = "range" THEN a.n ELSE IF a.pat = "nr" THEN a.n[1] ELSE 0,
   act |-> "user"]

\* s.AppendStmt(Auto(v...), action) while no Run is in progress.  A panic
\* of Auto reaches the caller before AppendStmt is called.
AutoStmt(v) ==
  /\ pc = "idle"
  /\ lastCall' = "Auto"
  /\ lastArg' = Len(v)
  /\ lastRet' = [i \in 1..Len(v) |-> v[i].kind]
  /\ LET a == AutoPattern(v)
     IN IF a.panic # "nil"
        THEN /\ lastOk' = FALSE
             /\ UNCHANGED <<rules, inRange>>
        ELSE /\ Len(rules) < MaxRules
             /\ rules' = Append(rules, AutoStatement(a))
             /\ inRange' = Append(inRange, NewLatches(AutoStatement(a)))
             /\ lastOk' = TRUE
  /\ UNCHANGED <<stop, ctlVars>>
  /\ UNCHANGED <<NR, NF, nf0, rs, fs, fields, Begin, End, state, input,
                 rsScanner, getlineState>>
  /\ UNCHANGED <<calls, nread, recNo, beginCount, endCount, patResult, acted,
                 exitRule, exitRec, eofSeen>>
  /\ RecSame /\ OutSame /\ MatchSame
  /\ UNCHANGED <<latch0, evalHist>>
  /\ ModeSame /\ ReadSame /\ Elsewhere

NextAuto ==
  \/ \E v \in AutoArgs : AutoStmt(v)
  \/ Run(LinesReader)
  \/ BeginReturn
  \/ ReadRecord
  \/ EvalPattern
  \/ ActionReturn
  \/ EndReturn

SpecAuto == Init /\ [][NextAuto]_vars

\* C39: Auto returns a pattern when it is given no argument, one argument
\* of a kind it accepts, or an even number of such arguments; given an odd
\* number of arguments greater than one, or one argument of another kind,
\* it fails at once and the script gets no rule.
C39_AutoShapes ==
  [][lastCall' = "Auto" =>
       LET n == lastArg'
           accepted == \A i \in 1..n : lastRet'[i] = "int"
       IN /\ (n > 1 /\ n % 2 = 1) => (~lastOk' /\ rules' = rules)
          /\ (n = 1 /\ ~accepted) => (~lastOk' /\ rules' = rules)
          /\ ((n = 0 \/ n = 1 \/ n % 2 = 0) /\ accepted) =>
               (lastOk' /\ Len(rules') = Len(rules) + 1)]_vars

\* A rule whose action may call Next or Exit, followed by a range rule.
NextSkip ==
  \/ AppendStmt(AnyStatement)
  \/ AppendStmt(RangeStatement)
  \/ Next_
  \/ Exit
  \/ Run(LinesReader)
  \/ BeginReturn
  \/ ReadRecord
  \/ EvalPattern
  \/ ActionReturn
  \/ EndReturn

SpecSkip == Init /\ [][NextSkip]_vars

\* C40: once an action has called Next or Exit on a record, no pattern of a
\* later rule is evaluated on that record: Next leaves the rules at once,
\* Exit when the action returns, and until the next record is read no
\* pattern is evaluated and every latch stays as it is.
C40_LaterPatternsSkipped ==
  [][/\ (lastCall' = "Next" /\ pc = "action") =>
          (pc' # "pattern" /\ inRange' = inRange /\ evalHist' = evalHist)
     /\ (pc = "action" /\ stop # "dontStop") =>
          (pc' # "pattern" /\ inRange' = inRange /\ evalHist' = evalHist)
     /\ pc' = "pattern" => stop' = "dontStop"
     /\ (inRange' # inRange /\ Len(inRange') = Len(inRange)) =>
          (pc = "pattern" /\ stop = "dontStop")]_vars

\* The first rule called Next on records 1 and 2; the range NR = 2 to
\* NR = 3 of the second rule is evaluated for the first time on record 3,
\* with its latch off although record 2 satisfied p1, and is false there.
C40_Witness ==
  /\ Len(rules) = 2 /\ rules[1].pat = "any" /\ rules[2].pat = "range"
  /\ rules[2].n = <<2, 3>>
  /\ NR = 3 /\ lastCall = "Pattern" /\ calls = 2
  /\ Len(evalHist[2]) = 1 /\ evalHist[2][1].nr = 3 /\ ~evalHist[2][1].m
  /\ inRange[2] = <<FALSE>>

====
